---------------------------- MODULE Spec2Model ----------------------------
(***************************************************************************)
(* A model of the storage core of dj: the path identities (path.rs), the   *)
(* file-backed object store (store/mod.rs, store/file_store.rs), the       *)
(* repository states and the comparison of two states (changes.rs).        *)
(*                                                                         *)
(* Text (String, PathBuf) is a sequence of one-character strings.  A       *)
(* PathBuf is the text it was built from; two PathBufs are equal when      *)
(* their components are.                                                   *)
(*                                                                         *)
(* The specifications of the module:                                       *)
(*   SpecPath  RepoPath::new, Display and FromStr on bounded inputs        *)
(*   SpecParse RepoPath::from_str on bounded texts                         *)
(*   Spec      the store, driven by one process, with the working          *)
(*             directory edited between the calls                          *)
(*   SpecCmp   compare_states on two bounded repository states             *)
(*   SpecMeta  write_metadata and parse_metadata on bounded histories and  *)
(*             byte streams                                                *)
(*   SpecOpen  the store as in Spec without write, with write_metadata     *)
(*             called on any path and files put into the tracking          *)
(*             directory from outside                                      *)
(*   SpecRel   relative_path, begin_tracking and generate_step on bounded  *)
(*             paths                                                       *)
(*   SpecTwo   two processes appending to the histories, step by step      *)
(*   SpecNoWrite  the store as in Spec without write                       *)
(***************************************************************************)
EXTENDS Integers, Sequences, FiniteSets, TLC

(***************************************************************************)
(* Bounds of the model.                                                    *)
(***************************************************************************)
MaxBranchLen == 2
MaxPathLen == 2
MaxStep == 11

(***************************************************************************)
(* Results: Ok(v) and Err(e) of Result<T, E>; an error is a tuple whose    *)
(* first element names the variant.                                        *)
(***************************************************************************)
Ok(v) == [ok |-> TRUE, val |-> v]
Err(e) == [ok |-> FALSE, val |-> e]
None == [some |-> FALSE]
Some(v) == [some |-> TRUE, val |-> v]

(***************************************************************************)
(* Text.                                                                   *)
(***************************************************************************)
Chars == {"a", "/", ":", "@", "1"}
DigitChars == <<"0", "1", "2", "3", "4", "5", "6", "7", "8", "9">>

SeqsUpTo(S, n) == UNION {[1..k -> S] : k \in 0..n}

\* The index of the first element of s equal to ch, 0 when there is none.
RECURSIVE Find(_, _, _)
Find(s, ch, i) ==
    IF i > Len(s) THEN 0
    ELSE IF s[i] = ch THEN i
    ELSE Find(s, ch, i + 1)

\* The index of the last element of s equal to ch, 0 when there is none.
RECURSIVE RFind(_, _, _)
RFind(s, ch, i) ==
    IF i < 1 THEN 0
    ELSE IF s[i] = ch THEN i
    ELSE RFind(s, ch, i - 1)

\* str::split_once: the text before and after the first ch.
SplitOnce(s, ch) ==
    LET i == Find(s, ch, 1)
    IN  IF i = 0 THEN None
        ELSE Some(<<SubSeq(s, 1, i - 1), SubSeq(s, i + 1, Len(s))>>)

\* Mutant of RSplitOnce: the text is split at the first ch.
SplitOnceForward(s, ch) ==
    LET i == Find(s, ch, 1)
    IN  IF i = 0 THEN None
        ELSE Some(<<SubSeq(s, 1, i - 1), SubSeq(s, i + 1, Len(s))>>)

\* str::rsplit_once: the text before and after the last ch.
RSplitOnce(s, ch) ==
    LET i == RFind(s, ch, Len(s))
    IN  IF i = 0 THEN None
        ELSE Some(<<SubSeq(s, 1, i - 1), SubSeq(s, i + 1, Len(s))>>)

DigitVal(ch) == CHOOSE d \in 0..9 : DigitChars[d + 1] = ch
IsDigit(ch) == \E d \in 0..9 : DigitChars[d + 1] = ch

\* Display for u64: the decimal digits, most significant first.
RECURSIVE ToDec(_)
ToDec(n) ==
    IF n < 10 THEN <<DigitChars[n + 1]>>
    ELSE ToDec(n \div 10) \o <<DigitChars[(n % 10) + 1]>>

RECURSIVE DecValue(_, _)
DecValue(s, acc) ==
    IF s = <<>> THEN acc
    ELSE DecValue(Tail(s), acc * 10 + DigitVal(Head(s)))

\* u64::from_str: an optional '+', then one or more decimal digits.  (Texts
\* of the model are far shorter than the 20 digits that overflow a u64.)
ParseU64(s) ==
    LET digits == IF s # <<>> /\ Head(s) = "+" THEN Tail(s) ELSE s
    IN  IF digits = <<>> \/ \E i \in 1..Len(digits) : ~IsDigit(digits[i])
        THEN Err(<<"ParseIntError", s>>)
        ELSE Ok(DecValue(digits, 0))

(***************************************************************************)
(* Paths.                                                                  *)
(***************************************************************************)
\* Path::is_relative on Unix: the path has no root.
IsRelative(p) == p = <<>> \/ Head(p) # "/"

\* The normal components of a path: the non-empty pieces between separators.
RECURSIVE Pieces(_, _)
Pieces(p, cur) ==
    IF p = <<>> THEN (IF cur = <<>> THEN <<>> ELSE <<cur>>)
    ELSE IF Head(p) = "/"
         THEN (IF cur = <<>> THEN <<>> ELSE <<cur>>) \o Pieces(Tail(p), <<>>)
         ELSE Pieces(Tail(p), Append(cur, Head(p)))

\* Path::components: whether the path is rooted, and its normal components.
Components(p) == [root |-> ~IsRelative(p), parts |-> Pieces(p, <<>>)]

\* PartialEq for PathBuf compares the components.
PathEq(p, q) == Components(p) = Components(q)

(***************************************************************************)
(* path.rs: RepoPath.                                                      *)
(***************************************************************************)
\* Mutant of RepoPathNew: the path is not looked at.
RepoPathNewUnchecked(branch, step, relative_path) ==
    Ok([branch |-> branch, step |-> step, relative_path |-> relative_path])

\* RepoPath::new
RepoPathNew(branch, step, relative_path) ==
    IF ~IsRelative(relative_path)
    THEN Err(<<"PathIsntRelative", relative_path>>)
    ELSE Ok([branch |-> branch, step |-> step, relative_path |-> relative_path])

\* impl Display for RepoPath: "{branch}:{relative_path}@{step}"
RepoPathToString(x) ==
    x.branch \o <<":">> \o x.relative_path \o <<"@">> \o ToDec(x.step)

\* impl FromStr for RepoPath
RepoPathFromStr(s) ==
    LET first == SplitOnce(s, ":")
    IN  IF ~first.some THEN Err(<<"InvalidPathSyntax">>)
        ELSE LET branch == first.val[1]
                 rest == first.val[2]
                 second == RSplitOnce(rest, "@")
             IN  IF ~second.some THEN Err(<<"InvalidPathSyntax">>)
                 ELSE LET path == second.val[1]
                          step == ParseU64(second.val[2])
                      IN  IF ~step.ok THEN step
                          ELSE RepoPathNew(branch, step.val, path)

\* derive(PartialEq) for RepoPath
RepoPathEq(x, y) ==
    /\ x.step = y.step
    /\ PathEq(x.relative_path, y.relative_path)
    /\ x.branch = y.branch

(***************************************************************************)
(* The repository the store borrows (lib.rs), and its environment.         *)
(***************************************************************************)
MaxSteps == 2

\* Repository::work_dir, an absolute canonical path; the process runs in it.
WorkDir == <<"/", "w">>
\* Repository::branch
RepoBranch == <<"m">>
OtherBranch == <<"o">>

\* The files of the working directory, by their path relative to it.
WorkFiles == {<<"a">>, <<"b">>}
\* What a file can hold; NoFile is a file that is not there.
Content == {1, 2}
NoFile == 0

\* The paths the commands hand to the store.
PathInputs ==
    { <<"a">>, <<"b">>, <<"/", "w", "/", "a">>, <<"/", "x", "/", "a">>,
      <<"/", "w">> }

IsPrefix(s, t) == Len(s) <= Len(t) /\ SubSeq(t, 1, Len(s)) = s

\* The text of a path without the separators in front of it.
RECURSIVE TrimLeft(_)
TrimLeft(p) == IF p # <<>> /\ Head(p) = "/" THEN TrimLeft(Tail(p)) ELSE p

\* The text of a path without the separators at its end.
RECURSIVE TrimRight(_)
TrimRight(p) ==
    IF p # <<>> /\ p[Len(p)] = "/" THEN TrimRight(SubSeq(p, 1, Len(p) - 1))
    ELSE p

\* The text of a path after its first component.
RECURSIVE SkipPiece(_)
SkipPiece(p) == IF p # <<>> /\ Head(p) # "/" THEN SkipPiece(Tail(p)) ELSE p

\* Components::as_path of what is left after k components: the text of
\* the path from there on, without the separators around it.
RECURSIVE AfterComponents(_, _)
AfterComponents(p, k) ==
    IF k = 0 THEN TrimRight(TrimLeft(p))
    ELSE AfterComponents(SkipPiece(TrimLeft(p)), k - 1)

\* Mutant of StripPrefix: the prefix is compared as text, not by
\* components.
StripPrefixText(p, base) ==
    IF IsPrefix(base, p) THEN Some(TrimLeft(SubSeq(p, Len(base) + 1, Len(p))))
    ELSE None

\* Path::strip_prefix: the rest of the path when base is a prefix of its
\* components.
StripPrefix(p, base) ==
    LET cp == Components(p)
        cb == Components(base)
    IN  IF cp.root = cb.root /\ IsPrefix(cb.parts, cp.parts)
        THEN Some(AfterComponents(p, Len(cb.parts)))
        ELSE None

\* Repository::relative_path
RelativePath(path) ==
    IF IsRelative(path) THEN Some(path)
    ELSE StripPrefix(path, WorkDir)

(***************************************************************************)
(* Hashes and the metadata format (store/file_store.rs).                   *)
(***************************************************************************)
\* blake3::OUT_LEN, the bytes of a hash
OUT_LEN == 32

\* blake3 of a content: one hash per content, never the all-zero hash.
Blake3(c) == [i \in 1..OUT_LEN |-> c]
\* Hash::from_bytes([0; blake3::OUT_LEN]), the mark of a removed file
ZeroHash == [i \in 1..OUT_LEN |-> 0]

\* Mutant of ParseSteps: a last partial chunk is kept, the bytes that are
\* missing left at the 0 the buffer was filled with.
RECURSIVE ParseStepsPadded(_)
ParseStepsPadded(bytes) ==
    IF bytes = <<>> THEN <<>>
    ELSE IF Len(bytes) < OUT_LEN
    THEN <<[i \in 1..OUT_LEN |-> IF i <= Len(bytes) THEN bytes[i] ELSE 0]>>
    ELSE <<SubSeq(bytes, 1, OUT_LEN)>>
             \o ParseStepsPadded(SubSeq(bytes, OUT_LEN + 1, Len(bytes)))

\* parse_metadata: the whole chunks of OUT_LEN bytes, a last partial chunk
\* dropped.
RECURSIVE ParseSteps(_)
ParseSteps(bytes) ==
    IF Len(bytes) < OUT_LEN THEN <<>>
    ELSE <<SubSeq(bytes, 1, OUT_LEN)>>
             \o ParseSteps(SubSeq(bytes, OUT_LEN + 1, Len(bytes)))

ParseMetadata(bytes) == [steps |-> ParseSteps(bytes)]

\* Mutant of FlattenSteps: the bytes of the steps, the last step first.
RECURSIVE FlattenStepsReversed(_)
FlattenStepsReversed(steps) ==
    IF steps = <<>> THEN <<>>
    ELSE FlattenStepsReversed(Tail(steps)) \o Head(steps)

\* write_metadata: the bytes of the steps, one after the other.
RECURSIVE FlattenSteps(_)
FlattenSteps(steps) ==
    IF steps = <<>> THEN <<>>
    ELSE Head(steps) \o FlattenSteps(Tail(steps))

WriteMetadata(meta) == FlattenSteps(meta.steps)

\* URL_SAFE.encode(path.display().to_string().as_bytes()): the name of a
\* path's record, one name per text.
Base64Encode(text) == <<"b64", text>>
\* URL_SAFE.decode of a file name: the bytes a "b64" name encodes, an
\* error for any other name
Base64Decode(name) ==
    IF name[1] = "b64" THEN Ok(name[2]) ELSE Err(<<"DecodeError">>)

\* A byte that no UTF-8 text holds.
NotUtf8 == "0xFF"

\* String::from_utf8
FromUtf8(bytes) ==
    IF \E i \in 1..Len(bytes) : bytes[i] = NotUtf8
    THEN Err(<<"FromUtf8Error">>)
    ELSE Ok(bytes)

\* hash.to_string(), the name of a blob in the objects directory
HashToString(hash) == <<"hex", hash>>

VARIABLES
    pBranch,    \* SpecPath: the branch given to RepoPath::new
    pStep,      \* SpecPath: the step given to RepoPath::new
    pPath,      \* SpecPath: the relative path given to RepoPath::new
    pNew,       \* SpecPath: what RepoPath::new returned, NotRun before the call
    pText,      \* SpecPath: to_string() of the RepoPath, NotRun before the call;
                \* SpecParse: the text given to from_str
    pParsed,    \* from_str(pText), NotRun before the call
    work,       \* the working directory: what each file holds, or NoFile
    disk,       \* the store directory <root>/store, see EmptyDisk
    cOld,       \* SpecCmp: state_old given to compare_states
    cNew,       \* SpecCmp: state_new given to compare_states
    cDiff,      \* SpecCmp: what compare_states returned, NotRun before the call
    mSteps,     \* SpecMeta: the steps of a FileMeta given to write_metadata
    mEnc,       \* SpecMeta: write_metadata of mSteps, NotRun before the call
    mDec,       \* SpecMeta: parse_metadata of mEnc, NotRun before the call
    mRaw,       \* SpecMeta: the bytes of a record given to parse_metadata
    mParsed,    \* SpecMeta: parse_metadata of mRaw, NotRun before the call
    mReenc,     \* SpecMeta: write_metadata of mParsed, NotRun before the call
    rPath,      \* SpecRel: the path given to relative_path and to the store
    rOut,       \* SpecRel: <<relative_path(rPath)>>, <<>> before the call
    rBegin,     \* SpecRel: begin_tracking(rPath), NotRun before the call
    rGen,       \* SpecRel: generate_step(rPath), NotRun before the call
    wPc,        \* SpecTwo: where each writer is in its append
    wLoc,       \* SpecTwo: the locals of each writer's append
    wOk,        \* SpecTwo: the appends to each file that returned Ok
    wCalls      \* SpecTwo: the appends each writer has started

pathVars == <<pBranch, pStep, pPath, pNew, pText, pParsed>>
storeVars == <<work, disk>>
cmpVars == <<cOld, cNew, cDiff>>
metaVars == <<mSteps, mEnc, mDec, mRaw, mParsed, mReenc>>
relVars == <<rPath, rOut, rBegin, rGen>>
procVars == <<wPc, wLoc, wOk, wCalls>>
vars == <<pathVars, storeVars, cmpVars, metaVars, relVars, procVars>>

NotRun == [ok |-> FALSE, val |-> <<"NotRun">>]
Ran(r) == r.ok \/ r.val[1] # "NotRun"

\* The store directory of a repository that was just created:
\*   pathsDirExists    whether <root>/store/paths/<branch> exists
\*   metaFiles         the files of that directory, name -> bytes
\*   objectsDirExists  whether <root>/store/objects exists
\*   objects           the files of that directory, name -> content
EmptyDisk ==
    [pathsDirExists |-> FALSE, metaFiles |-> <<>>,
     objectsDirExists |-> FALSE, objects |-> <<>>]

PathIdle ==
    /\ pBranch = <<>>
    /\ pPath = <<>>
    /\ pStep = 0
    /\ pNew = NotRun
    /\ pText = NotRun
    /\ pParsed = NotRun

\* A repository that was just created: no store directory yet.
StoreFresh == disk = EmptyDisk

\* A repository state with no file.
NoState == [files |-> <<>>, reads |-> <<>>]

CmpIdle ==
    /\ cOld = NoState
    /\ cNew = NoState
    /\ cDiff = NotRun

MetaIdle ==
    /\ mSteps = <<>>
    /\ mEnc = NotRun
    /\ mDec = NotRun
    /\ mRaw = <<>>
    /\ mParsed = NotRun
    /\ mReenc = NotRun

RelIdle ==
    /\ rPath = <<>>
    /\ rOut = <<>>
    /\ rBegin = NotRun
    /\ rGen = NotRun

\* The processes that write to the store at the same time.
Writers == {1, 2}

\* The locals of add_step_to_metadata and mark_file_removed: the path, the
\* step to push, the FileMeta read and pushed to.
NoLocals == [path |-> <<>>, step |-> ZeroHash, meta |-> [steps |-> <<>>]]

ProcIdle ==
    /\ wPc = [w \in Writers |-> "idle"]
    /\ wLoc = [w \in Writers |-> NoLocals]
    /\ wOk = [f \in WorkFiles |-> 0]
    /\ wCalls = [w \in Writers |-> 0]

(***************************************************************************)
(* SpecPath: RepoPath::new, to_string and from_str.                        *)
(***************************************************************************)
InitPath ==
    /\ pBranch \in SeqsUpTo(Chars, MaxBranchLen)
    /\ pPath \in SeqsUpTo(Chars, MaxPathLen)
    /\ pStep \in 0..MaxStep
    /\ pNew = NotRun
    /\ pText = NotRun
    /\ pParsed = NotRun
    /\ work = [f \in WorkFiles |-> NoFile]
    /\ StoreFresh
    /\ CmpIdle
    /\ MetaIdle
    /\ RelIdle
    /\ ProcIdle

\* let x = RepoPath::new(branch, step, relative_path)
PathNew ==
    /\ ~Ran(pNew)
    /\ pNew' = RepoPathNew(pBranch, pStep, pPath)
    /\ UNCHANGED <<pBranch, pStep, pPath, pText, pParsed, storeVars, cmpVars, metaVars, relVars, procVars>>

\* let text = x.to_string()
PathToString ==
    /\ pNew.ok
    /\ ~Ran(pText)
    /\ pText' = Ok(RepoPathToString(pNew.val))
    /\ UNCHANGED <<pBranch, pStep, pPath, pNew, pParsed, storeVars, cmpVars, metaVars, relVars, procVars>>

\* RepoPath::from_str(&text)
PathFromStr ==
    /\ pText.ok
    /\ ~Ran(pParsed)
    /\ pParsed' = RepoPathFromStr(pText.val)
    /\ UNCHANGED <<pBranch, pStep, pPath, pNew, pText, storeVars, cmpVars, metaVars, relVars, procVars>>

NextPath == PathNew \/ PathToString \/ PathFromStr

SpecPath == InitPath /\ [][NextPath]_vars

(***************************************************************************)
(* C1: every RepoPath that RepoPath::new returns parses back from its      *)
(* text: from_str(x.to_string()) succeeds and equals x, for any branch,    *)
(* any step and any relative path.                                         *)
(***************************************************************************)
C1_RoundTrip ==
    (pNew.ok /\ Ran(pParsed)) =>
        (pParsed.ok /\ RepoPathEq(pParsed.val, pNew.val))


(***************************************************************************)
(* The store (store/mod.rs, store/file_store.rs).  Every operation is a    *)
(* function of the store directory st (and of the working directory wd):   *)
(* a query returns its result, a call that writes returns its result and   *)
(* the store directory it leaves.                                          *)
(***************************************************************************)
\* A directory with the file name holding bytes, created or overwritten.
PutFile(dir, name, bytes) ==
    [n \in DOMAIN dir \cup {name} |-> IF n = name THEN bytes ELSE dir[n]]

\* What a call returns and the store directory it leaves.
Outcome(res, st) == [res |-> res, st |-> st]

\* FileStore::get_metadata_path, within the directory of the branch
GetMetadataPath(path) == Base64Encode(path)

\* The empty path has the empty name, and join("") of the empty name is the
\* directory of the branch itself, with a trailing separator.
IsBranchDir(name) == name = Base64Encode(<<>>)

\* metadata_path.exists()
MetadataPathExists(st, name) ==
    IF IsBranchDir(name) THEN st.pathsDirExists
    ELSE st.pathsDirExists /\ name \in DOMAIN st.metaFiles

\* File::open and the read of a file of the working directory, by a path
\* relative to the directory the process runs in
OpenFile(wd, path) ==
    IF path \in DOMAIN wd /\ wd[path] # NoFile
    THEN Ok(wd[path])
    ELSE Err(<<"FailedToReadFile", path>>)

\* Mutant of HashFile: the path is hashed together with the content.
HashFileWithPath(path, content) ==
    Blake3(IF path = <<"b">> THEN content + 2 ELSE content)

\* The hash of an open file: blake3 over its content.
HashFile(path, content) == Blake3(content)

\* Mutant of GetMetadata: a record that cannot be read is taken as an empty
\* history.
GetMetadataOrEmpty(st, path) ==
    LET name == GetMetadataPath(path)
    IN  IF st.pathsDirExists /\ name \in DOMAIN st.metaFiles
        THEN Ok(ParseMetadata(st.metaFiles[name]))
        ELSE Ok(ParseMetadata(<<>>))

\* FileStore::get_metadata
GetMetadata(st, path) ==
    LET name == GetMetadataPath(path)
    IN  IF st.pathsDirExists /\ name \in DOMAIN st.metaFiles
        THEN Ok(ParseMetadata(st.metaFiles[name]))
        ELSE Err(<<"FailedToReadFileMetadata", path>>)

\* FileStore::write_metadata: the record of path rewritten whole
StoreWriteMetadata(st, path, meta) ==
    Outcome(Ok(<<>>),
            [st EXCEPT !.pathsDirExists = TRUE,
                       !.metaFiles = PutFile(st.metaFiles, GetMetadataPath(path),
                                             WriteMetadata(meta))])

\* Mutant of PushStep: the step is dropped.
PushStepDropped(meta, step) == meta

\* Mutant of PushStep: the step is put in front of the history.
PushStepFront(meta, step) == [steps |-> <<step>> \o meta.steps]

\* meta.steps.push(step)
PushStep(meta, step) == [steps |-> Append(meta.steps, step)]

\* Store::add_step_to_metadata
AddStepToMetadata(st, path, step) ==
    LET meta == GetMetadata(st, path)
    IN  IF ~meta.ok THEN Outcome(meta, st)
        ELSE StoreWriteMetadata(st, path, PushStep(meta.val, step))

\* Mutant of MarkFileRemovedCall: the blobs of the store are purged with the
\* mark.
MarkFileRemovedPurging(st, path) ==
    LET metadata == GetMetadata(st, path)
    IN  IF ~metadata.ok THEN Outcome(metadata, st)
        ELSE StoreWriteMetadata([st EXCEPT !.objects = <<>>], path,
                                PushStep(metadata.val, ZeroHash))

\* Store::mark_file_removed
MarkFileRemovedCall(st, path) ==
    LET metadata == GetMetadata(st, path)
    IN  IF ~metadata.ok THEN Outcome(metadata, st)
        ELSE StoreWriteMetadata(st, path, PushStep(metadata.val, ZeroHash))

\* Mutant of StepsGet: a step past the end resolves to the last entry.
StepsGetOrLast(steps, step) ==
    IF step < Len(steps) THEN Some(steps[step + 1])
    ELSE IF steps # <<>> THEN Some(steps[Len(steps)])
    ELSE None

\* Mutant of StepsGet: the step is taken as a one-based index.
StepsGetOneBased(steps, step) ==
    IF 1 <= step /\ step <= Len(steps) THEN Some(steps[step]) ELSE None

\* meta.steps.get(step): the entry at a zero-based index
StepsGet(steps, step) ==
    IF step < Len(steps) THEN Some(steps[step + 1]) ELSE None

\* FileStore::is_tracked
IsTracked(st, path) ==
    LET rel == RelativePath(path)
    IN  IF ~rel.some THEN FALSE
        ELSE MetadataPathExists(st, GetMetadataPath(rel.val))

\* Mutant of TrackedRecord: the record is written empty whether it exists or
\* not.
TrackedRecordReset(st, name) == <<>>

\* The record begin_tracking leaves under a name: the one that exists, an
\* empty one otherwise.
TrackedRecord(st, name) ==
    IF name \in DOMAIN st.metaFiles THEN st.metaFiles[name] ELSE <<>>

\* FileStore::begin_tracking.  For the empty path the parent of the
\* metadata path is store/paths: the directory of the branch is not
\* created, and std::fs::write to a path that ends in a separator fails.
BeginTrackingCall(st, path) ==
    LET rel == RelativePath(path)
    IN  IF ~rel.some THEN Outcome(Err(<<"PathIsntInRepository", path>>), st)
        ELSE LET name == GetMetadataPath(rel.val)
             IN  IF IsBranchDir(name)
                 THEN IF MetadataPathExists(st, name) THEN Outcome(Ok(<<>>), st)
                      ELSE Outcome(Err(<<"FailedToWriteFileMetadata", rel.val>>), st)
                 ELSE
                 Outcome(Ok(<<>>),
                         [st EXCEPT !.pathsDirExists = TRUE,
                                    !.metaFiles = PutFile(st.metaFiles, name,
                                                          TrackedRecord(st, name))])

\* Mutant of CopyToObjects: the file is not copied.
CopySkipped(st, hash, content) == st

\* std::fs::copy(&path, &obj_path) into the objects directory, created on
\* first use: the blob is created or overwritten.
CopyToObjects(st, hash, content) ==
    [st EXCEPT !.objectsDirExists = TRUE,
               !.objects = PutFile(st.objects, HashToString(hash), content)]

\* FileStore::generate_step
GenerateStepCall(st, wd, path) ==
    LET rel == RelativePath(path)
    IN  IF ~rel.some THEN Outcome(Err(<<"PathIsntInRepository", path>>), st)
        ELSE
        LET file == OpenFile(wd, rel.val)
        IN  IF ~file.ok THEN Outcome(file, st)
            ELSE
            LET hash == HashFile(rel.val, file.val)
                copied == CopyToObjects(st, hash, file.val)
                added == AddStepToMetadata(copied, rel.val, hash)
            IN  IF ~added.res.ok THEN added
                ELSE Outcome(Ok(hash), added.st)

\* The blob a step names: std::fs::read of objects/<hash>
ReadObject(st, obj_path) ==
    LET name == HashToString(obj_path)
    IN  IF st.objectsDirExists /\ name \in DOMAIN st.objects
        THEN Ok(st.objects[name])
        ELSE Err(<<"FailedToReadObject", obj_path>>)

\* Mutant of Read: a RepoPath of another branch than the repository's has
\* no record.
ReadOfBranch(st, rp) ==
    LET meta == IF rp.branch = RepoBranch
                THEN GetMetadata(st, rp.relative_path)
                ELSE Err(<<"FailedToReadFileMetadata", rp.relative_path>>)
    IN  IF ~meta.ok THEN meta
        ELSE LET obj_path == StepsGet(meta.val.steps, rp.step)
             IN  IF ~obj_path.some THEN Err(<<"PathDoesntExist", rp>>)
                 ELSE ReadObject(st, obj_path.val)

\* FileStore::read
Read(st, rp) ==
    LET meta == GetMetadata(st, rp.relative_path)
    IN  IF ~meta.ok THEN meta
        ELSE LET obj_path == StepsGet(meta.val.steps, rp.step)
             IN  IF ~obj_path.some THEN Err(<<"PathDoesntExist", rp>>)
                 ELSE ReadObject(st, obj_path.val)

\* Mutant of WriteCall: the content is stored under its own hash.
WriteCallByContent(st, rp, content) ==
    LET meta == GetMetadata(st, rp.relative_path)
    IN  IF ~meta.ok THEN Outcome(meta, st)
        ELSE
        LET obj_path == StepsGet(meta.val.steps, rp.step)
        IN  IF ~obj_path.some THEN Outcome(Err(<<"PathDoesntExist", rp>>), st)
            ELSE IF ~st.objectsDirExists
            THEN Outcome(Err(<<"FailedToWriteToObject", obj_path.val>>), st)
            ELSE Outcome(Ok(<<>>),
                         [st EXCEPT !.objects =
                             PutFile(st.objects, HashToString(Blake3(content)),
                                     content)])

\* FileStore::write
WriteCall(st, rp, content) ==
    LET meta == GetMetadata(st, rp.relative_path)
    IN  IF ~meta.ok THEN Outcome(meta, st)
        ELSE
        LET obj_path == StepsGet(meta.val.steps, rp.step)
        IN  IF ~obj_path.some THEN Outcome(Err(<<"PathDoesntExist", rp>>), st)
            ELSE IF ~st.objectsDirExists
            THEN Outcome(Err(<<"FailedToWriteToObject", obj_path.val>>), st)
            ELSE Outcome(Ok(<<>>),
                         [st EXCEPT !.objects =
                             PutFile(st.objects, HashToString(obj_path.val), content)])

\* The elements of a finite set in some order (the order of read_dir).
RECURSIVE SetToSeq(_)
SetToSeq(S) ==
    IF S = {} THEN <<>>
    ELSE LET x == CHOOSE y \in S : TRUE
         IN  <<x>> \o SetToSeq(S \ {x})

\* URL_SAFE.decode(file_name).unwrap() panics on a name that is not
\* base64.
DecodePanics(names) ==
    \E i \in 1..Len(names) : ~Base64Decode(names[i]).ok

\* FileStore::tracked_files: the names of the files of the directory,
\* decoded; a name that decodes to bytes that are not UTF-8 is skipped.  A
\* panic is written as the error <<"panic", ..>>.
TrackedFiles(st) ==
    IF ~st.pathsDirExists
    THEN Err(<<"FailedToReadStoreDir", <<"paths">> >>)
    ELSE LET names == SetToSeq(DOMAIN st.metaFiles)
         IN  IF DecodePanics(names) THEN Err(<<"panic", "DecodeError">>)
             ELSE LET decoded == SelectSeq(names, LAMBDA n : Base64Decode(n).ok)
                      texts == SelectSeq(decoded,
                                   LAMBDA n : FromUtf8(Base64Decode(n).val).ok)
                  IN  Ok([i \in 1..Len(texts) |-> Base64Decode(texts[i]).val])

(***************************************************************************)
(* The state of the repository as the store last recorded it               *)
(* (changes.rs, RepoStateFromStore).                                       *)
(***************************************************************************)
\* The first error of a sequence of results, None when all succeeded.
RECURSIVE FirstError(_)
FirstError(results) ==
    IF results = <<>> THEN None
    ELSE IF ~Head(results).ok THEN Some(Head(results))
    ELSE FirstError(Tail(results))

\* The step from_latest gives the RepoPath of a file: the length of its
\* history.
LatestStep(meta) == Len(meta.steps)

\* RepoStateFromStore::from_latest: the objects of the state, one RepoPath
\* for every tracked file with a step.  The branch handed to RepoPath::new
\* is None in the source, taken here as the empty branch: read does not
\* consult it.  RepoPath::new(..).unwrap() panics on a path that is not
\* relative.
FromLatest(st) ==
    LET tracked == TrackedFiles(st)
    IN  IF ~tracked.ok THEN tracked
        ELSE
        LET metas == [i \in 1..Len(tracked.val) |->
                         GetMetadata(st, tracked.val[i])]
            failed == FirstError(metas)
        IN  IF failed.some THEN failed.val
            ELSE
            LET with_steps == SelectSeq([i \in 1..Len(metas) |-> i],
                                  LAMBDA i : Len(metas[i].val.steps) > 0)
                made == [k \in 1..Len(with_steps) |->
                            RepoPathNew(<<>>, LatestStep(metas[with_steps[k]].val),
                                        tracked.val[with_steps[k]])]
            IN  IF FirstError(made).some
                THEN Err(<<"panic", FirstError(made).val.val>>)
                ELSE Ok([objects |-> [k \in 1..Len(made) |-> made[k].val]])

\* RepoStateFromStore::files
StateFiles(state) ==
    [k \in 1..Len(state.objects) |-> state.objects[k].relative_path]

\* RepoStateFromStore::read
StateRead(st, state, path) ==
    LET found == SelectSeq(state.objects,
                           LAMBDA rp : PathEq(rp.relative_path, path))
    IN  IF found = <<>> THEN Err(<<"FileDoesntExist", path>>)
        ELSE LET r == Read(st, Head(found))
             IN  IF r.ok THEN r ELSE Err(<<"StoreError", r.val>>)

(***************************************************************************)
(* Spec: one process calls the store; the user edits the working           *)
(* directory between the calls.                                            *)
(***************************************************************************)
\* The steps recorded in the whole store.
RECURSIVE CountSteps(_, _)
CountSteps(st, names) ==
    IF names = {} THEN 0
    ELSE LET n == CHOOSE m \in names : TRUE
         IN  Len(ParseSteps(st.metaFiles[n])) + CountSteps(st, names \ {n})

TotalSteps(st) == CountSteps(st, DOMAIN st.metaFiles)

\* The RepoPaths the calls of the model hand to read and write.
RepoPaths ==
    { RepoPathNew(b, n, f).val :
        b \in {RepoBranch, OtherBranch}, n \in 0..MaxSteps, f \in WorkFiles }

\* The RepoPaths the process hands to write.
WriteInputs == {rp \in RepoPaths : rp.branch = RepoBranch}

\* A call ends with the store directory as the call left it, whatever it
\* returned.
BeginTracking(path) ==
    /\ disk' = BeginTrackingCall(disk, path).st
    /\ UNCHANGED <<work, pathVars, cmpVars, metaVars, relVars, procVars>>

GenerateStep(path) ==
    LET out == GenerateStepCall(disk, work, path)
    IN  /\ out.res.ok => TotalSteps(disk) < MaxSteps
        /\ disk' = out.st
        /\ UNCHANGED <<work, pathVars, cmpVars, metaVars, relVars, procVars>>

MarkFileRemoved(path) ==
    LET out == MarkFileRemovedCall(disk, path)
    IN  /\ out.res.ok => TotalSteps(disk) < MaxSteps
        /\ disk' = out.st
        /\ UNCHANGED <<work, pathVars, cmpVars, metaVars, relVars, procVars>>

Write(rp, content) ==
    /\ disk' = WriteCall(disk, rp, content).st
    /\ UNCHANGED <<work, pathVars, cmpVars, metaVars, relVars, procVars>>

\* The user edits, creates or removes a file of the working directory.
EditFile(f, c) ==
    /\ work[f] # c
    /\ work' = [work EXCEPT ![f] = c]
    /\ UNCHANGED <<disk, pathVars, cmpVars, metaVars, relVars, procVars>>

Init ==
    /\ PathIdle
    /\ work \in [WorkFiles -> Content \cup {NoFile}]
    /\ StoreFresh
    /\ CmpIdle
    /\ MetaIdle
    /\ RelIdle
    /\ ProcIdle

Next ==
    \/ \E path \in PathInputs : BeginTracking(path)
    \/ \E path \in PathInputs : GenerateStep(path)
    \/ \E path \in PathInputs : MarkFileRemoved(path)
    \/ \E rp \in WriteInputs, c \in Content : Write(rp, c)
    \/ \E f \in WorkFiles, c \in Content \cup {NoFile} : EditFile(f, c)

Spec == Init /\ [][Next]_vars

(***************************************************************************)
(* What the claims about the store speak of.                               *)
(***************************************************************************)
\* The history recorded for a path that has a record.
Steps(st, path) == ParseSteps(st.metaFiles[GetMetadataPath(path)])

HasRecord(st, path) == GetMetadataPath(path) \in DOMAIN st.metaFiles

\* The result r is the success v.
IsOk(r, v) == r.ok /\ r.val = v

\* Two results of a read agree: both fail, or both return the same bytes.
SameRead(r1, r2) == r1.ok = r2.ok /\ (r1.ok => r1.val = r2.val)

\* Every record of the store is there in st2, its history a prefix of the
\* history st2 holds.
KeepsHistory(st2) ==
    \A name \in DOMAIN disk.metaFiles :
        /\ name \in DOMAIN st2.metaFiles
        /\ IsPrefix(ParseSteps(disk.metaFiles[name]),
                    ParseSteps(st2.metaFiles[name]))

\* st2 holds one more step for path than the store, and every other record
\* as the store holds it.
GrowsByOne(st2, path) ==
    /\ HasRecord(disk, path)
    /\ DOMAIN st2.metaFiles = DOMAIN disk.metaFiles
    /\ Len(Steps(st2, path)) = Len(Steps(disk, path)) + 1
    /\ \A name \in DOMAIN disk.metaFiles \ {GetMetadataPath(path)} :
           st2.metaFiles[name] = disk.metaFiles[name]

\* Every record of the store but those of names is in st2 as the store
\* holds it.
OthersUntouched(st2, names) ==
    \A name \in DOMAIN disk.metaFiles \ names :
        /\ name \in DOMAIN st2.metaFiles
        /\ st2.metaFiles[name] = disk.metaFiles[name]

(***************************************************************************)
(* C2: the history of every tracked file is append-only.  Whatever call    *)
(* is made in a reachable state (begin_tracking, generate_step,            *)
(* mark_file_removed, write; read writes nothing), every history before    *)
(* the call is a prefix of the history after it; a generate_step or        *)
(* mark_file_removed that succeeds makes the history of its file one       *)
(* entry longer and leaves every other record as it was; begin_tracking,   *)
(* write and a call that fails change no history at all.                   *)
(***************************************************************************)
C2_AppendOnly ==
    /\ \A path \in PathInputs :
           LET out == BeginTrackingCall(disk, path)
           IN  /\ KeepsHistory(out.st)
               /\ OthersUntouched(out.st, {})
    /\ \A path \in PathInputs :
           LET out == GenerateStepCall(disk, work, path)
           IN  /\ KeepsHistory(out.st)
               /\ out.res.ok => GrowsByOne(out.st, RelativePath(path).val)
               /\ ~out.res.ok => OthersUntouched(out.st, {})
    /\ \A path \in PathInputs :
           LET out == MarkFileRemovedCall(disk, path)
           IN  /\ KeepsHistory(out.st)
               /\ out.res.ok => GrowsByOne(out.st, path)
               /\ ~out.res.ok => OthersUntouched(out.st, {})
    /\ \A rp \in RepoPaths, c \in Content :
           LET out == WriteCall(disk, rp, c)
           IN  /\ KeepsHistory(out.st)
               /\ OthersUntouched(out.st, {})

\* Reached: a file whose history is a step and then the mark of a removal,
\* beside another tracked file.
C2_Witness ==
    \E f \in WorkFiles, g \in WorkFiles :
        /\ f # g
        /\ HasRecord(disk, f) /\ HasRecord(disk, g)
        /\ Len(Steps(disk, f)) = 2
        /\ Steps(disk, f)[1] # ZeroHash
        /\ Steps(disk, f)[2] = ZeroHash

(***************************************************************************)
(* C3: when generate_step(f) succeeds on a file with n recorded steps      *)
(* whose working copy holds c, the new entry is the one at zero-based      *)
(* index n, it is the ObjectPath returned, and read of (f, n) returns c.   *)
(* A step whose blob holds the content it was made from keeps reading the  *)
(* same through every later begin_tracking, generate_step and              *)
(* mark_file_removed: only the low-level write can change it.              *)
(***************************************************************************)
\* The step rp names a blob that holds the content it is the hash of.
Intact(st, rp) ==
    LET meta == GetMetadata(st, rp.relative_path)
    IN  /\ meta.ok
        /\ StepsGet(meta.val.steps, rp.step).some
        /\ Read(st, rp).ok
        /\ Blake3(Read(st, rp).val) = StepsGet(meta.val.steps, rp.step).val

KeepsIntactSteps(st2) ==
    \A rp \in RepoPaths : Intact(disk, rp) => SameRead(Read(st2, rp), Read(disk, rp))

C3_StepReadsBack ==
    /\ \A path \in PathInputs :
           LET out == GenerateStepCall(disk, work, path)
           IN  out.res.ok =>
                   LET f == RelativePath(path).val
                       n == Len(Steps(disk, f))
                   IN  /\ Len(Steps(out.st, f)) = n + 1
                       /\ Steps(out.st, f)[n + 1] = out.res.val
                       /\ IsOk(Read(out.st, RepoPathNew(RepoBranch, n, f).val),
                               work[f])
    /\ \A path \in PathInputs :
           /\ KeepsIntactSteps(BeginTrackingCall(disk, path).st)
           /\ KeepsIntactSteps(GenerateStepCall(disk, work, path).st)
           /\ KeepsIntactSteps(MarkFileRemovedCall(disk, path).st)

\* Reached: a file with two steps of different contents, the second one
\* reading back what the working copy holds.
C3_Witness ==
    \E f \in WorkFiles :
        /\ HasRecord(disk, f)
        /\ Len(Steps(disk, f)) = 2
        /\ Steps(disk, f)[2] = Blake3(work[f])
        /\ Steps(disk, f)[1] \notin {Steps(disk, f)[2], ZeroHash}
        /\ IsOk(Read(disk, RepoPathNew(RepoBranch, 1, f).val), work[f])

(***************************************************************************)
(* C4: content addressing.  When generate_step succeeds and a second       *)
(* generate_step, on the same file or on another file that holds the same  *)
(* bytes, follows it, the second call returns the same ObjectPath, stores  *)
(* no second blob (the objects directory is as the first call left it),    *)
(* and the two steps read back the same bytes; on the same unchanged file  *)
(* the second call is not an error.                                        *)
(***************************************************************************)
C4_ContentAddressed ==
    \A p \in PathInputs, q \in PathInputs :
        LET o1 == GenerateStepCall(disk, work, p)
        IN  (o1.res.ok /\ RelativePath(q).some) =>
            LET o2 == GenerateStepCall(o1.st, work, q)
                f == RelativePath(p).val
                g == RelativePath(q).val
            IN  /\ (f = g) => o2.res.ok
                /\ (o2.res.ok /\ work[f] = work[g]) =>
                       /\ o2.res.val = o1.res.val
                       /\ o2.st.objects = o1.st.objects
                       /\ DOMAIN o2.st.objects =
                              DOMAIN disk.objects \cup {HashToString(o1.res.val)}
                       /\ IsOk(Read(o2.st, RepoPathNew(RepoBranch,
                                   Len(Steps(o2.st, f)) - 1, f).val), work[f])
                       /\ IsOk(Read(o2.st, RepoPathNew(RepoBranch,
                                   Len(Steps(o2.st, g)) - 1, g).val), work[f])

\* Reached: two files with the same bytes, a step each, one blob.
C4_Witness ==
    /\ \A f \in WorkFiles :
           /\ HasRecord(disk, f)
           /\ Len(Steps(disk, f)) = 1
           /\ work[f] # NoFile
           /\ Steps(disk, f)[1] = Blake3(work[f])
    /\ Cardinality(DOMAIN disk.objects) = 1

(***************************************************************************)
(* C5: begin_tracking of a path that is tracked returns Ok and leaves the  *)
(* whole store (every record, every blob) as it was, whatever the number   *)
(* of steps the path has.                                                  *)
(***************************************************************************)
C5_TrackingIdempotent ==
    \A path \in PathInputs :
        IsTracked(disk, path) =>
            LET out == BeginTrackingCall(disk, path)
            IN  out.res.ok /\ out.st = disk

\* Reached: every file tracked with a step, and begin_tracking of a tracked
\* path returning Ok.
C5_Witness ==
    /\ \A f \in WorkFiles : HasRecord(disk, f) /\ Len(Steps(disk, f)) = 1
    /\ \E path \in PathInputs :
           IsTracked(disk, path) /\ BeginTrackingCall(disk, path).res.ok

(***************************************************************************)
(* C6: a generate_step that returns an error leaves the store as it was:   *)
(* the tracking records, every metadata record, the blobs and their        *)
(* contents.                                                               *)
(***************************************************************************)
C6_NoPartialMutation ==
    \A path \in PathInputs :
        LET out == GenerateStepCall(disk, work, path)
        IN  ~out.res.ok => out.st = disk

(***************************************************************************)
(* C7: for every path that from_latest(store).files() lists, read(path)    *)
(* on that state resolves the last entry of the path's metadata and        *)
(* returns the content of the blob it names.                               *)
(***************************************************************************)
C7_LatestStateReads ==
    LET state == FromLatest(disk)
    IN  state.ok =>
            \A k \in 1..Len(StateFiles(state.val)) :
                LET path == StateFiles(state.val)[k]
                    steps == Steps(disk, path)
                IN  SameRead(StateRead(disk, state.val, path),
                             ReadObject(disk, steps[Len(steps)]))

(***************************************************************************)
(* C8: tracked_files() on a store whose tracking directory does not exist  *)
(* yet returns Ok with an empty list.                                      *)
(***************************************************************************)
C8_MissingDirIsEmpty ==
    ~disk.pathsDirExists =>
        (TrackedFiles(disk).ok /\ TrackedFiles(disk).val = <<>>)

(***************************************************************************)
(* changes.rs: RepoState and compare_states.  A repository state is taken  *)
(* by what it answers: files |-> the result of files(), reads |-> for      *)
(* each listed path what read(path) returns, a content or ReadFails.       *)
(***************************************************************************)
MaxCmpContent == 2

CmpPaths == {<<"a">>, <<"b">>, <<"c">>}
CmpContent == 1..MaxCmpContent
ReadFails == 0

Range(seq) == {seq[i] : i \in 1..Len(seq)}
NoDuplicates(seq) == Cardinality(Range(seq)) = Len(seq)

\* The states compare_states is given: files() fails, or lists some paths
\* in some order, each read returning a content or failing.
CmpStates ==
    {[files |-> Err(<<"io">>), reads |-> <<>>]} \cup
    UNION { {[files |-> Ok(fs), reads |-> rd] :
                rd \in [Range(fs) -> CmpContent \cup {ReadFails}]} :
            fs \in {q \in SeqsUpTo(CmpPaths, Cardinality(CmpPaths)) :
                        NoDuplicates(q)} }

\* RepoState::read
ReadOf(state, path) ==
    IF path \in DOMAIN state.reads /\ state.reads[path] # ReadFails
    THEN Ok(state.reads[path])
    ELSE Err(<<"io", path>>)

\* RepoState::hash
HashOf(state, path) ==
    LET contents == ReadOf(state, path)
    IN  IF ~contents.ok THEN contents ELSE Ok(Blake3(contents.val))

\* Vec::contains
Contains(files, f) == \E i \in 1..Len(files) : PathEq(files[i], f)

\* file_diff
FileDiff(path, bytes1, bytes2) == <<"ByBytes", bytes1, bytes2>>

\* Mutant of HashChanged: the comparison is the wrong way round.
HashUnchanged(old_hash, new_hash) == old_hash = new_hash

\* let changed = old_hash != new_hash
HashChanged(old_hash, new_hash) == old_hash # new_hash

\* Mutant of NewFiles: a read of state2 that fails is returned as an error
\* of state1.
RECURSIVE NewFilesBlamingOld(_, _, _)
NewFilesBlamingOld(state2, files1, files2) ==
    IF files2 = <<>> THEN Ok(<<>>)
    ELSE IF Contains(files1, Head(files2))
    THEN NewFilesBlamingOld(state2, files1, Tail(files2))
    ELSE LET p == Head(files2)
             bytes == ReadOf(state2, p)
         IN  IF ~bytes.ok THEN Err(<<"State1Error", bytes.val>>)
             ELSE LET rest == NewFilesBlamingOld(state2, files1, Tail(files2))
                  IN  IF ~rest.ok THEN rest
                      ELSE Ok(<<<<p, bytes.val>>>> \o rest.val)

\* new_files: the files of state2 that files1 does not contain, each with
\* what state2 reads; the first read that fails ends the collection.
RECURSIVE NewFiles(_, _, _)
NewFiles(state2, files1, files2) ==
    IF files2 = <<>> THEN Ok(<<>>)
    ELSE IF Contains(files1, Head(files2))
    THEN NewFiles(state2, files1, Tail(files2))
    ELSE LET p == Head(files2)
             bytes == ReadOf(state2, p)
         IN  IF ~bytes.ok THEN Err(<<"State2Error", bytes.val>>)
             ELSE LET rest == NewFiles(state2, files1, Tail(files2))
                  IN  IF ~rest.ok THEN rest
                      ELSE Ok(<<<<p, bytes.val>>>> \o rest.val)

\* The files of both states whose hashes differ; the first hash that fails
\* ends the collection.
RECURSIVE ChangedPaths(_, _, _, _)
ChangedPaths(state1, state2, files1, files2) ==
    IF files2 = <<>> THEN Ok(<<>>)
    ELSE IF ~Contains(files1, Head(files2))
    THEN ChangedPaths(state1, state2, files1, Tail(files2))
    ELSE LET p == Head(files2)
             old_hash == HashOf(state1, p)
             new_hash == HashOf(state2, p)
         IN  IF ~old_hash.ok THEN Err(<<"State1Error", old_hash.val>>)
             ELSE IF ~new_hash.ok THEN Err(<<"State2Error", new_hash.val>>)
             ELSE LET rest == ChangedPaths(state1, state2, files1, Tail(files2))
                  IN  IF ~rest.ok THEN rest
                      ELSE IF HashChanged(old_hash.val, new_hash.val)
                      THEN Ok(<<p>> \o rest.val)
                      ELSE rest

\* changed_files: each changed path with the diff of what the states read.
RECURSIVE ChangedFiles(_, _, _)
ChangedFiles(state1, state2, paths) ==
    IF paths = <<>> THEN Ok(<<>>)
    ELSE LET p == Head(paths)
             bytes1 == ReadOf(state1, p)
             bytes2 == ReadOf(state2, p)
         IN  IF ~bytes1.ok THEN Err(<<"State1Error", bytes1.val>>)
             ELSE IF ~bytes2.ok THEN Err(<<"State2Error", bytes2.val>>)
             ELSE LET rest == ChangedFiles(state1, state2, Tail(paths))
                  IN  IF ~rest.ok THEN rest
                      ELSE Ok(<<<<p, FileDiff(p, bytes1.val, bytes2.val)>>>>
                                  \o rest.val)

\* Mutant of DeletedFiles: the files of state2 are filtered, not those of
\* state1.
DeletedFilesOfNew(files1, files2) ==
    SelectSeq(files2, LAMBDA p : ~Contains(files1, p))

\* deleted_files: the files of state1 that files2 does not contain.
DeletedFiles(files1, files2) ==
    SelectSeq(files1, LAMBDA p : ~Contains(files2, p))

\* Mutant of CompareStates: state1 is read on every path that state2 does
\* not list, and a read that fails makes the comparison fail.
CompareStatesReadingDeleted(state1, state2) ==
    IF ~state1.files.ok THEN Err(<<"State1Error", state1.files.val>>)
    ELSE IF ~state2.files.ok THEN Err(<<"State2Error", state2.files.val>>)
    ELSE
    LET files1 == state1.files.val
        files2 == state2.files.val
        deleted == DeletedFiles(files1, files2)
        failed == SelectSeq(deleted, LAMBDA p : ~ReadOf(state1, p).ok)
        new_files == NewFiles(state2, files1, files2)
    IN  IF failed # <<>>
        THEN Err(<<"State1Error", ReadOf(state1, Head(failed)).val>>)
        ELSE IF ~new_files.ok THEN new_files
        ELSE
        LET changed == ChangedPaths(state1, state2, files1, files2)
        IN  IF ~changed.ok THEN changed
            ELSE
            LET changed_files == ChangedFiles(state1, state2, changed.val)
            IN  IF ~changed_files.ok THEN changed_files
                ELSE Ok([new_files |-> new_files.val,
                         changed_files |-> changed_files.val,
                         deleted_files |-> deleted])

\* compare_states
CompareStates(state1, state2) ==
    IF ~state1.files.ok THEN Err(<<"State1Error", state1.files.val>>)
    ELSE IF ~state2.files.ok THEN Err(<<"State2Error", state2.files.val>>)
    ELSE
    LET files1 == state1.files.val
        files2 == state2.files.val
        new_files == NewFiles(state2, files1, files2)
    IN  IF ~new_files.ok THEN new_files
        ELSE
        LET changed == ChangedPaths(state1, state2, files1, files2)
        IN  IF ~changed.ok THEN changed
            ELSE
            LET changed_files == ChangedFiles(state1, state2, changed.val)
            IN  IF ~changed_files.ok THEN changed_files
                ELSE Ok([new_files |-> new_files.val,
                         changed_files |-> changed_files.val,
                         deleted_files |-> DeletedFiles(files1, files2)])

(***************************************************************************)
(* SpecCmp: compare_states on every pair of bounded states.                *)
(***************************************************************************)
InitCmp ==
    /\ PathIdle
    /\ work = [f \in WorkFiles |-> NoFile]
    /\ StoreFresh
    /\ cOld \in CmpStates
    /\ cNew \in CmpStates
    /\ cDiff = NotRun
    /\ MetaIdle
    /\ RelIdle
    /\ ProcIdle

\* let diff = compare_states(state_old, state_new)
Compare ==
    /\ ~Ran(cDiff)
    /\ cDiff' = CompareStates(cOld, cNew)
    /\ UNCHANGED <<cOld, cNew, pathVars, storeVars, metaVars, relVars, procVars>>

NextCmp == Compare

SpecCmp == InitCmp /\ [][NextCmp]_vars

\* The paths of a list of (path, ..) pairs.
PathsOf(pairs) == {pairs[i][1] : i \in 1..Len(pairs)}

\* The listed paths of the two states, when both list their files.
OldPaths == Range(cOld.files.val)
NewPaths == Range(cNew.files.val)

(***************************************************************************)
(* C9: when compare_states returns a Diff, new_files holds exactly the     *)
(* paths of state_new.files() that state_old.files() does not hold, each   *)
(* once and with what state_new.read returns for it; deleted_files holds   *)
(* exactly the paths of state_old.files() that state_new.files() does not  *)
(* hold, each once; no path is in both.                                    *)
(***************************************************************************)
C9_NewAndDeleted ==
    (Ran(cDiff) /\ cDiff.ok) =>
        LET d == cDiff.val
        IN  /\ PathsOf(d.new_files) = NewPaths \ OldPaths
            /\ Len(d.new_files) = Cardinality(NewPaths \ OldPaths)
            /\ \A i \in 1..Len(d.new_files) :
                   IsOk(ReadOf(cNew, d.new_files[i][1]), d.new_files[i][2])
            /\ Range(d.deleted_files) = OldPaths \ NewPaths
            /\ Len(d.deleted_files) = Cardinality(OldPaths \ NewPaths)
            /\ PathsOf(d.new_files) \cap Range(d.deleted_files) = {}

\* Reached: a Diff with a new file and a deleted file.
C9_Witness ==
    /\ Ran(cDiff) /\ cDiff.ok
    /\ cDiff.val.new_files # <<>>
    /\ cDiff.val.deleted_files # <<>>

(***************************************************************************)
(* C10: when compare_states returns a Diff, changed_files holds exactly    *)
(* the paths of both states whose content hashes differ, each once; a      *)
(* path of both states with the same content is in none of new_files,      *)
(* changed_files, deleted_files.  Old {a:1, b:2} against new               *)
(* {a:1, b:3, c:4} gives new = {c}, changed = {b}, deleted = {}.           *)
(***************************************************************************)
ExampleOld ==
    [files |-> Ok(<< <<"a">>, <<"b">> >>),
     reads |-> (<<"a">> :> 1 @@ <<"b">> :> 2)]
ExampleNew ==
    [files |-> Ok(<< <<"a">>, <<"b">>, <<"c">> >>),
     reads |-> (<<"a">> :> 1 @@ <<"b">> :> 3 @@ <<"c">> :> 4)]

C10_Changed ==
    /\ (Ran(cDiff) /\ cDiff.ok) =>
        LET d == cDiff.val
            differ == {p \in OldPaths \cap NewPaths :
                          Blake3(cOld.reads[p]) # Blake3(cNew.reads[p])}
        IN  /\ PathsOf(d.changed_files) = differ
            /\ Len(d.changed_files) = Cardinality(differ)
            /\ \A p \in (OldPaths \cap NewPaths) \ differ :
                   /\ p \notin PathsOf(d.new_files)
                   /\ p \notin PathsOf(d.changed_files)
                   /\ p \notin Range(d.deleted_files)
    /\ LET e == CompareStates(ExampleOld, ExampleNew)
       IN  /\ e.ok
           /\ PathsOf(e.val.new_files) = {<<"c">>}
           /\ PathsOf(e.val.changed_files) = {<<"b">>}
           /\ e.val.deleted_files = <<>>

\* Reached: a Diff with a changed file beside a file both states hold with
\* the same content.
C10_Witness ==
    /\ Ran(cDiff) /\ cDiff.ok
    /\ cDiff.val.changed_files # <<>>
    /\ \E p \in OldPaths \cap NewPaths : cOld.reads[p] = cNew.reads[p]

(***************************************************************************)
(* C11: when mark_file_removed(f) succeeds, the history of f is the        *)
(* history it had with the all-zero hash appended as its last entry, the   *)
(* objects directory holds the blobs it held with the contents they had,   *)
(* and the step the call takes leaves the working directory as it was.     *)
(***************************************************************************)
\* The objects directory of st2 is the one of the store.
SameBlobs(st2) ==
    /\ st2.objectsDirExists = disk.objectsDirExists
    /\ st2.objects = disk.objects

C11_RemovalMark ==
    /\ [](\A path \in PathInputs :
             LET out == MarkFileRemovedCall(disk, path)
             IN  out.res.ok =>
                     /\ HasRecord(disk, path)
                     /\ Steps(out.st, path) =
                            Append(Steps(disk, path), [i \in 1..OUT_LEN |-> 0])
                     /\ SameBlobs(out.st))
    /\ [][\A path \in PathInputs :
              (MarkFileRemoved(path) /\ MarkFileRemovedCall(disk, path).res.ok)
                  => (work' = work /\ SameBlobs(disk'))]_vars

\* Reached: a file that was removed from the working directory after a
\* step, its history ending in the mark, the blob of the step still there.
C11_Witness ==
    \E f \in WorkFiles :
        /\ HasRecord(disk, f)
        /\ work[f] = NoFile
        /\ Len(Steps(disk, f)) = 2
        /\ Steps(disk, f)[2] = ZeroHash
        /\ ReadObject(disk, Steps(disk, f)[1]).ok

(***************************************************************************)
(* main.rs, Command::Status: the status of every tracked file.             *)
(***************************************************************************)
\* dj::hash_file: blake3 over the file at a path, an io error when it
\* cannot be opened
LibHashFile(wd, path) ==
    LET file == OpenFile(wd, path)
    IN  IF ~file.ok THEN Err(<<"io", path>>) ELSE Ok(Blake3(file.val))

\* Mutant of IsRemovalMark: no hash is taken as the mark of a removal.
NeverRemovalMark(hash) == FALSE

\* last_hash.as_bytes() == &[0; blake3::OUT_LEN]
IsRemovalMark(hash) == hash = [i \in 1..OUT_LEN |-> 0]

\* The FileStatus of one tracked file; the expect on get_metadata panics
\* when the record cannot be read.
FileStatusOf(st, wd, file) ==
    LET metadata == GetMetadata(st, file)
    IN  IF ~metadata.ok THEN <<"panic">>
        ELSE
        LET steps == metadata.val.steps
        IN  IF steps = <<>> THEN <<"Changed", file>>
            ELSE
            LET last_hash == steps[Len(steps)]
            IN  IF IsRemovalMark(last_hash) THEN <<"Noop">>
                ELSE
                LET new_hash == LibHashFile(wd, file)
                IN  IF ~new_hash.ok THEN <<"Deleted", file>>
                    ELSE IF new_hash.val = last_hash THEN <<"Noop">>
                    ELSE <<"Changed", file>>

\* Command::Status: the statuses of the tracked files, in the order of
\* tracked_files(); the error of tracked_files() ends the command.
StatusCall(st, wd) ==
    LET tracked_files == TrackedFiles(st)
    IN  IF ~tracked_files.ok THEN tracked_files
        ELSE Ok([i \in 1..Len(tracked_files.val) |->
                    [file |-> tracked_files.val[i],
                     status |-> FileStatusOf(st, wd, tracked_files.val[i])]])

(***************************************************************************)
(* C12: for a tracked file whose last entry is the all-zero hash, status   *)
(* reports Noop whether a file is at that path of the working directory    *)
(* or not; for a last entry that is an ordinary hash it reports Noop when  *)
(* the hash of the live file equals it, Changed when it differs and        *)
(* Deleted when the live file cannot be hashed.                            *)
(***************************************************************************)
C12_StatusLogic ==
    LET statuses == StatusCall(disk, work)
    IN  statuses.ok =>
            \A i \in 1..Len(statuses.val) :
                LET f == statuses.val[i].file
                    status == statuses.val[i].status
                    steps == Steps(disk, f)
                    last == steps[Len(steps)]
                IN  steps # <<>> =>
                        /\ last = ZeroHash => status = <<"Noop">>
                        /\ (last # ZeroHash /\ work[f] = NoFile)
                               => status = <<"Deleted", f>>
                        /\ (last # ZeroHash /\ work[f] # NoFile
                                /\ Blake3(work[f]) = last)
                               => status = <<"Noop">>
                        /\ (last # ZeroHash /\ work[f] # NoFile
                                /\ Blake3(work[f]) # last)
                               => status = <<"Changed", f>>

\* Reached: a file whose history ends in the mark while a file is at its
\* path, beside a file whose live content differs from its last step.
C12_Witness ==
    /\ StatusCall(disk, work).ok
    /\ \E f \in WorkFiles, g \in WorkFiles :
           /\ HasRecord(disk, f) /\ HasRecord(disk, g)
           /\ Steps(disk, f) = <<ZeroHash>>
           /\ work[f] # NoFile
           /\ FileStatusOf(disk, work, f) = <<"Noop">>
           /\ Len(Steps(disk, g)) = 1
           /\ FileStatusOf(disk, work, g) = <<"Changed", g>>

(***************************************************************************)
(* C13: tracked files are never un-tracked.  When begin_tracking(p)        *)
(* returns Ok, is_tracked(p) is true and tracked_files() holds the         *)
(* relative path of p; whatever call follows (begin_tracking,              *)
(* generate_step, mark_file_removed, write; read writes nothing), a path   *)
(* that is tracked and listed is tracked and listed after it.  is_tracked  *)
(* answers true or false, false for a path that cannot be made relative    *)
(* to the working directory.                                               *)
(***************************************************************************)
\* tracked_files() of st succeeds and holds path.
Lists(st, path) ==
    /\ TrackedFiles(st).ok
    /\ Contains(TrackedFiles(st).val, path)

\* A path that is tracked and listed in the store is tracked and listed
\* in st2.
StaysTracked(st2) ==
    \A path \in PathInputs :
        (IsTracked(disk, path) /\ Lists(disk, RelativePath(path).val))
            => (IsTracked(st2, path) /\ Lists(st2, RelativePath(path).val))

C13_NeverUntracked ==
    /\ \A path \in PathInputs :
           /\ IsTracked(disk, path) \in BOOLEAN
           /\ ~RelativePath(path).some => ~IsTracked(disk, path)
           /\ LET out == BeginTrackingCall(disk, path)
              IN  /\ out.res.ok =>
                         /\ IsTracked(out.st, path)
                         /\ Lists(out.st, RelativePath(path).val)
                  /\ StaysTracked(out.st)
           /\ StaysTracked(GenerateStepCall(disk, work, path).st)
           /\ StaysTracked(MarkFileRemovedCall(disk, path).st)
    /\ \A rp \in RepoPaths, c \in Content :
           StaysTracked(WriteCall(disk, rp, c).st)

(***************************************************************************)
(* C14: for a path that has a record, read fails with                      *)
(* PathDoesntExist(repo_path) exactly when the step is greater than or     *)
(* equal to the number of entries of the record (a record with no entry    *)
(* included); for a step in range it reads the blob the entry at that      *)
(* index names.  read is a query: it returns bytes or an error and writes  *)
(* to no directory.  (usize is taken as wide as u64.)                      *)
(***************************************************************************)
IsPathDoesntExist(r, rp) == ~r.ok /\ r.val = <<"PathDoesntExist", rp>>

C14_ReadOutOfRange ==
    \A rp \in RepoPaths :
        LET r == Read(disk, rp)
        IN  IF HasRecord(disk, rp.relative_path)
            THEN LET steps == Steps(disk, rp.relative_path)
                 IN  /\ IsPathDoesntExist(r, rp) <=> rp.step >= Len(steps)
                     /\ rp.step < Len(steps) =>
                            SameRead(r, ReadObject(disk, steps[rp.step + 1]))
            ELSE ~r.ok /\ r.val[1] = "FailedToReadFileMetadata"

\* Reached: a tracked file with no step, whose step 0 does not exist,
\* beside a file whose step 0 reads back and whose step 1 does not exist.
C14_Witness ==
    \E f \in WorkFiles, g \in WorkFiles :
        /\ HasRecord(disk, f) /\ Steps(disk, f) = <<>>
        /\ IsPathDoesntExist(Read(disk, RepoPathNew(RepoBranch, 0, f).val),
                             RepoPathNew(RepoBranch, 0, f).val)
        /\ HasRecord(disk, g) /\ Len(Steps(disk, g)) = 1
        /\ Read(disk, RepoPathNew(RepoBranch, 0, g).val).ok
        /\ IsPathDoesntExist(Read(disk, RepoPathNew(RepoBranch, 1, g).val),
                             RepoPathNew(RepoBranch, 1, g).val)

(***************************************************************************)
(* SpecMeta: the metadata format.  write_metadata and then parse_metadata  *)
(* on a bounded history; parse_metadata and then write_metadata on a       *)
(* bounded byte stream.                                                    *)
(***************************************************************************)
MaxMetaSteps == 2

\* The byte at index i (from 1) of a hash that repeats a pattern of bytes.
PatternHash(pattern) ==
    [i \in 1..OUT_LEN |-> pattern[((i - 1) % Len(pattern)) + 1]]

\* The hashes of assert_metadata_format_remains_same:
\* Hash::from_hex(b"1234567890..1234") and Hash::from_hex(b"0987654321..0987")
TestHash1 == PatternHash(<<18, 52, 86, 120, 144>>)
TestHash2 == PatternHash(<<9, 135, 101, 67, 33>>)

\* The data of assert_metadata_format_remains_same
TestData ==
    <<18, 52, 86, 120, 144, 18, 52, 86, 120, 144, 18, 52, 86, 120, 144, 18, 52,
      86, 120, 144, 18, 52, 86, 120, 144, 18, 52, 86, 120, 144, 18, 52, 9, 135,
      101, 67, 33, 9, 135, 101, 67, 33, 9, 135, 101, 67, 33, 9, 135, 101, 67,
      33, 9, 135, 101, 67, 33, 9, 135, 101, 67, 33, 9, 135>>

\* The hashes of the histories: those of the test and the mark of a removal.
MetaHashes == {TestHash1, TestHash2, ZeroHash}

\* The histories given to write_metadata.
MetaHistories == SeqsUpTo(MetaHashes, MaxMetaSteps)

\* The bytes a record can end with after its last whole chunk: none, one,
\* five (as in the spec's example) or one less than a chunk.
TailLens == {0, 1, 5, OUT_LEN - 1}
TailBytes(n) == [i \in 1..n |-> (7 * i) % 256]

\* n whole chunks of bytes, each one of the hashes.
RECURSIVE Chunks(_)
Chunks(n) ==
    IF n = 0 THEN {<<>>}
    ELSE {h \o rest : h \in MetaHashes, rest \in Chunks(n - 1)}

\* The byte streams given to parse_metadata.
RawStreams ==
    {c \o TailBytes(n) : c \in UNION {Chunks(k) : k \in 0..MaxMetaSteps},
                         n \in TailLens}

InitMeta ==
    /\ PathIdle
    /\ work = [f \in WorkFiles |-> NoFile]
    /\ StoreFresh
    /\ CmpIdle
    /\ RelIdle
    /\ ProcIdle
    /\ mSteps \in MetaHistories
    /\ mEnc = NotRun
    /\ mDec = NotRun
    /\ mRaw \in RawStreams
    /\ mParsed = NotRun
    /\ mReenc = NotRun

\* let bytes = write_metadata(FileMeta { steps })
MetaEncode ==
    /\ ~Ran(mEnc)
    /\ mEnc' = Ok(WriteMetadata([steps |-> mSteps]))
    /\ UNCHANGED <<mSteps, mDec, mRaw, mParsed, mReenc, pathVars, storeVars, cmpVars, relVars, procVars>>

\* let meta = parse_metadata(bytes.into_iter())
MetaDecode ==
    /\ mEnc.ok
    /\ ~Ran(mDec)
    /\ mDec' = Ok(ParseMetadata(mEnc.val))
    /\ UNCHANGED <<mSteps, mEnc, mRaw, mParsed, mReenc, pathVars, storeVars, cmpVars, relVars, procVars>>

\* let meta = parse_metadata(raw.into_iter())
MetaParseRaw ==
    /\ ~Ran(mParsed)
    /\ mParsed' = Ok(ParseMetadata(mRaw))
    /\ UNCHANGED <<mSteps, mEnc, mDec, mRaw, mReenc, pathVars, storeVars, cmpVars, relVars, procVars>>

\* let bytes = write_metadata(meta)
MetaReencode ==
    /\ mParsed.ok
    /\ ~Ran(mReenc)
    /\ mReenc' = Ok(WriteMetadata(mParsed.val))
    /\ UNCHANGED <<mSteps, mEnc, mDec, mRaw, mParsed, pathVars, storeVars, cmpVars, relVars, procVars>>

NextMeta == MetaEncode \/ MetaDecode \/ MetaParseRaw \/ MetaReencode

SpecMeta == InitMeta /\ [][NextMeta]_vars

(***************************************************************************)
(* C15: write_metadata of a history s is OUT_LEN * |s| bytes, the bytes    *)
(* of the hashes one after the other in the order of s, with nothing       *)
(* before, between or after them; parse_metadata of those bytes gives      *)
(* the steps s back.  The two hashes of the repository's test encode to    *)
(* the 64 bytes the test expects.                                          *)
(***************************************************************************)
C15_CodecRoundTrip ==
    /\ mEnc.ok =>
           /\ Len(mEnc.val) = OUT_LEN * Len(mSteps)
           /\ \A k \in 1..Len(mSteps), j \in 1..OUT_LEN :
                  mEnc.val[(k - 1) * OUT_LEN + j] = mSteps[k][j]
           /\ mSteps = <<TestHash1, TestHash2>> => mEnc.val = TestData
    /\ mDec.ok => mDec.val.steps = mSteps

\* Reached: a history of two different hashes, written and parsed back.
C15_Witness ==
    /\ mDec.ok
    /\ Len(mSteps) = 2
    /\ mSteps[1] # mSteps[2]
    /\ Len(mEnc.val) = 64

(***************************************************************************)
(* C16: parse_metadata has no error to return: of a byte stream of length  *)
(* L it returns L div OUT_LEN steps, step i (from 0) being the bytes       *)
(* [OUT_LEN * i, OUT_LEN * i + OUT_LEN), and drops the last L mod OUT_LEN  *)
(* bytes; write_metadata of what it returns is the stream cut to a         *)
(* multiple of OUT_LEN bytes.                                              *)
(***************************************************************************)
C16_ParseTruncates ==
    /\ Ran(mParsed) =>
           /\ mParsed.ok
           /\ Len(mParsed.val.steps) = Len(mRaw) \div OUT_LEN
           /\ \A i \in 0..(Len(mParsed.val.steps) - 1) :
                  mParsed.val.steps[i + 1] =
                      [j \in 1..OUT_LEN |-> mRaw[OUT_LEN * i + j]]
    /\ Ran(mReenc) =>
           /\ mReenc.ok
           /\ mReenc.val = SubSeq(mRaw, 1, OUT_LEN * (Len(mRaw) \div OUT_LEN))

\* Reached: a stream of two chunks and five more bytes, parsed into two
\* steps and written back as 64 bytes.
C16_Witness ==
    /\ mReenc.ok
    /\ Len(mRaw) = 2 * OUT_LEN + 5
    /\ Len(mParsed.val.steps) = 2
    /\ Len(mReenc.val) = 2 * OUT_LEN

(***************************************************************************)
(* C17: RepoPath::new fails with PathIsntRelative(relative_path) exactly   *)
(* when relative_path is absolute (on Unix: it starts with the root) and   *)
(* otherwise returns the RepoPath of its arguments; no RepoPath that new   *)
(* or from_str returns holds an absolute path.                             *)
(***************************************************************************)
StartsAtRoot(p) == p # <<>> /\ p[1] = "/"

C17_PathStaysRelative ==
    /\ Ran(pNew) =>
           IF StartsAtRoot(pPath)
           THEN ~pNew.ok /\ pNew.val = <<"PathIsntRelative", pPath>>
           ELSE /\ pNew.ok
                /\ pNew.val.branch = pBranch
                /\ pNew.val.step = pStep
                /\ pNew.val.relative_path = pPath
    /\ pNew.ok => ~StartsAtRoot(pNew.val.relative_path)
    /\ pParsed.ok => ~StartsAtRoot(pParsed.val.relative_path)
    /\ (Ran(pParsed) /\ ~pParsed.ok /\ pParsed.val[1] = "PathIsntRelative")
           => StartsAtRoot(pParsed.val[2])

\* Reached: a RepoPath whose text from_str refuses, the path it reads in
\* the text being absolute.
C17_Witness ==
    /\ pNew.ok
    /\ Ran(pParsed) /\ ~pParsed.ok
    /\ pParsed.val[1] = "PathIsntRelative"
    /\ StartsAtRoot(pParsed.val[2])

(***************************************************************************)
(* SpecParse: RepoPath::from_str on every text of a bounded length.        *)
(***************************************************************************)
MaxTextLen == 5

\* The characters of the texts: a letter, the separators of the syntax and
\* of paths, a digit, a sign.
ParseChars == {"a", "/", ":", "@", "1", "+"}

InitParse ==
    /\ pBranch = <<>>
    /\ pPath = <<>>
    /\ pStep = 0
    /\ pNew = NotRun
    /\ pText \in {Ok(s) : s \in SeqsUpTo(ParseChars, MaxTextLen)}
    /\ pParsed = NotRun
    /\ work = [f \in WorkFiles |-> NoFile]
    /\ StoreFresh
    /\ CmpIdle
    /\ MetaIdle
    /\ RelIdle
    /\ ProcIdle

NextParse == PathFromStr

SpecParse == InitParse /\ [][NextParse]_vars

(***************************************************************************)
(* C18: from_str(s) returns InvalidPathSyntax when s holds no ':' or when  *)
(* the text after the first ':' holds no '@'; when both are there and the  *)
(* text after the last '@' is not an unsigned decimal number (digits,      *)
(* with the '+' that u64::from_str allows before them) it returns          *)
(* ParseIntError carrying that text, also when the path is absolute: the   *)
(* syntax is checked before the step is parsed and the step is parsed      *)
(* before the path is checked.  (No text of the model is long enough to    *)
(* overflow a u64.)                                                        *)
(***************************************************************************)
\* The indices of s that hold ch.
Positions(s, ch) == {i \in 1..Len(s) : s[i] = ch}
Min(S) == CHOOSE x \in S : \A y \in S : x <= y
Max(S) == CHOOSE x \in S : \A y \in S : x >= y

\* The text of an unsigned decimal number, as u64::from_str reads it.
IsDecimal(t) ==
    LET digits == IF t # <<>> /\ t[1] = "+" THEN Tail(t) ELSE t
    IN  digits # <<>> /\ \A i \in 1..Len(digits) : digits[i] \in Range(DigitChars)

C18_ParseErrors ==
    Ran(pParsed) =>
        LET s == pText.val
            colons == Positions(s, ":")
        IN  IF colons = {}
            THEN ~pParsed.ok /\ pParsed.val = <<"InvalidPathSyntax">>
            ELSE
            LET rest == SubSeq(s, Min(colons) + 1, Len(s))
                ats == Positions(rest, "@")
            IN  IF ats = {}
                THEN ~pParsed.ok /\ pParsed.val = <<"InvalidPathSyntax">>
                ELSE
                LET step == SubSeq(rest, Max(ats) + 1, Len(rest))
                    path == SubSeq(rest, 1, Max(ats) - 1)
                IN  IF ~IsDecimal(step)
                    THEN ~pParsed.ok /\ pParsed.val = <<"ParseIntError", step>>
                    ELSE IF StartsAtRoot(path)
                    THEN ~pParsed.ok /\ pParsed.val = <<"PathIsntRelative", path>>
                    ELSE pParsed.ok

\* Reached: a text with both separators, an absolute path and a step that
\* is no number, refused for its step.
C18_Witness ==
    /\ Ran(pParsed) /\ ~pParsed.ok
    /\ pParsed.val[1] = "ParseIntError"
    /\ \E i \in Positions(pText.val, ":") :
           i < Len(pText.val) /\ pText.val[i + 1] = "/"
                /\ i = Min(Positions(pText.val, ":"))

(***************************************************************************)
(* C19: compare_states returns a Diff only when no call it makes on a      *)
(* state fails: files() of both states, read of state_new on every path    *)
(* only it lists, hash and read of both states on every path both list.    *)
(* When a call fails it returns State1Error for a failure of state_old     *)
(* and State2Error for a failure of state_new, with the very error that    *)
(* state returned.                                                         *)
(***************************************************************************)
\* The errors the calls compare_states makes on state_old can return.
OldFailures ==
    IF ~cOld.files.ok THEN {cOld.files.val}
    ELSE IF ~cNew.files.ok THEN {}
    ELSE {ReadOf(cOld, p).val :
              p \in {q \in OldPaths \cap NewPaths : cOld.reads[q] = ReadFails}}

\* The errors the calls compare_states makes on state_new can return.
NewFailures ==
    IF ~cOld.files.ok THEN {}
    ELSE IF ~cNew.files.ok THEN {cNew.files.val}
    ELSE {ReadOf(cNew, p).val :
              p \in {q \in NewPaths : cNew.reads[q] = ReadFails}}

C19_ErrorsAbort ==
    Ran(cDiff) =>
        /\ cDiff.ok <=> (OldFailures = {} /\ NewFailures = {})
        /\ ~cDiff.ok =>
               \/ cDiff.val[1] = "State1Error" /\ cDiff.val[2] \in OldFailures
               \/ cDiff.val[1] = "State2Error" /\ cDiff.val[2] \in NewFailures

\* Reached: a comparison that state_old alone makes fail, by a read of a
\* path both states list.
C19_Witness ==
    /\ Ran(cDiff) /\ ~cDiff.ok
    /\ cDiff.val[1] = "State1Error"
    /\ cOld.files.ok
    /\ NewFailures = {}

(***************************************************************************)
(* C20: only begin_tracking makes a path tracked.                          *)
(***************************************************************************)
\* The result r is the error of the variant named.
IsErr(r, variant) == ~r.ok /\ r.val[1] = variant

\* The path is not tracked in st and st holds no record under its name or
\* under the name of its relative path.
Untracked(st, path) ==
    /\ ~IsTracked(st, path)
    /\ ~HasRecord(st, path)
    /\ RelativePath(path).some => ~HasRecord(st, RelativePath(path).val)

(***************************************************************************)
(* C20 as claimed: on a path that is not tracked, get_metadata,            *)
(* generate_step and mark_file_removed each return                         *)
(* FailedToReadFileMetadata, and after the call the path is not tracked    *)
(* and has no record.                                                      *)
(***************************************************************************)
C20_OnlyBeginTracks ==
    \A path \in PathInputs :
        ~IsTracked(disk, path) =>
            /\ IsErr(GetMetadata(disk, path), "FailedToReadFileMetadata")
            /\ IsErr(GenerateStepCall(disk, work, path).res,
                     "FailedToReadFileMetadata")
            /\ IsErr(MarkFileRemovedCall(disk, path).res,
                     "FailedToReadFileMetadata")
            /\ Untracked(GenerateStepCall(disk, work, path).st, path)
            /\ Untracked(MarkFileRemovedCall(disk, path).st, path)

(***************************************************************************)
(* C20 amended: on a path that is not tracked, get_metadata and            *)
(* mark_file_removed return FailedToReadFileMetadata; generate_step        *)
(* returns PathIsntInRepository when the path is outside the working       *)
(* directory, FailedToReadFile when the working file cannot be read and    *)
(* FailedToReadFileMetadata otherwise; after the call the path is not      *)
(* tracked and has no record.                                              *)
(***************************************************************************)
C20_UntrackedCallsFail ==
    \A path \in PathInputs :
        ~IsTracked(disk, path) =>
            LET rel == RelativePath(path)
                gen == GenerateStepCall(disk, work, path)
                rem == MarkFileRemovedCall(disk, path)
            IN  /\ IsErr(GetMetadata(disk, path), "FailedToReadFileMetadata")
                /\ IsErr(rem.res, "FailedToReadFileMetadata")
                /\ IF ~rel.some THEN IsErr(gen.res, "PathIsntInRepository")
                   ELSE IF rel.val \notin WorkFiles \/ work[rel.val] = NoFile
                   THEN IsErr(gen.res, "FailedToReadFile")
                   ELSE IsErr(gen.res, "FailedToReadFileMetadata")
                /\ Untracked(gen.st, path)
                /\ Untracked(rem.st, path)

\* Reached: a store that tracks one file, where generate_step was called
\* on the other: its blob is there, no record names it, and the file is
\* not tracked.
C20_Witness ==
    \E f \in WorkFiles, g \in WorkFiles :
        /\ HasRecord(disk, f)
        /\ Untracked(disk, g)
        /\ work[g] # NoFile
        /\ ReadObject(disk, Blake3(work[g])).ok
        /\ \A k \in 1..Len(Steps(disk, f)) : Steps(disk, f)[k] # Blake3(work[g])
        /\ IsErr(GenerateStepCall(disk, work, g).res, "FailedToReadFileMetadata")

(***************************************************************************)
(* SpecOpen: the store as in Spec, with what else can come to the          *)
(* tracking directory: a caller of the Store trait writes the metadata of  *)
(* a path with write_metadata, and a file that the store did not name is   *)
(* put into the directory from outside.                                    *)
(***************************************************************************)
\* The names of the files that come from outside: one that is not base64,
\* one that is the base64 of bytes that are not UTF-8.
ForeignNames == {<<"raw", <<"x">>>>, Base64Encode(<<NotUtf8>>)}

\* The histories a caller hands to write_metadata.
MetaInputs == {[steps |-> <<>>], [steps |-> <<Blake3(1)>>]}

\* store.write_metadata(&path, meta)
PutMetadata(path, meta) ==
    LET out == StoreWriteMetadata(disk, path, meta)
    IN  /\ TotalSteps(out.st) <= MaxSteps
        /\ disk' = out.st
        /\ UNCHANGED <<work, pathVars, cmpVars, metaVars, relVars, procVars>>

\* A file is created in the tracking directory from outside the store.
ForeignFile(name) ==
    /\ disk.pathsDirExists
    /\ name \notin DOMAIN disk.metaFiles
    /\ disk' = [disk EXCEPT !.metaFiles = PutFile(disk.metaFiles, name, <<>>)]
    /\ UNCHANGED <<work, pathVars, cmpVars, metaVars, relVars, procVars>>

NextOpen ==
    \/ \E path \in PathInputs : BeginTracking(path)
    \/ \E path \in PathInputs : GenerateStep(path)
    \/ \E path \in PathInputs : MarkFileRemoved(path)
    \/ \E f \in WorkFiles, c \in Content \cup {NoFile} : EditFile(f, c)
    \/ \E path \in PathInputs, meta \in MetaInputs : PutMetadata(path, meta)
    \/ \E name \in ForeignNames : ForeignFile(name)

SpecOpen == Init /\ [][NextOpen]_vars

(***************************************************************************)
(* C21: no store operation panics on what it can meet: tracked_files()     *)
(* returns a result (an error, or a list without the entry) when the       *)
(* tracking directory holds a file whose name is not base64 or does not    *)
(* decode to UTF-8, and from_latest returns a result when a record         *)
(* decodes to an absolute path.                                            *)
(***************************************************************************)
Panics(r) == ~r.ok /\ r.val[1] = "panic"

C21_NoPanic ==
    /\ ~Panics(TrackedFiles(disk))
    /\ ~Panics(FromLatest(disk))

(***************************************************************************)
(* SpecRel: relative_path, begin_tracking and generate_step on every       *)
(* bounded path.                                                           *)
(***************************************************************************)
MaxRelLen == 6

\* The characters of the paths: the separator, the name of the working
\* directory, the name of a file.
RelChars == {"/", "w", "a"}

InitRel ==
    /\ PathIdle
    /\ work = [f \in WorkFiles |-> IF f = <<"a">> THEN 1 ELSE NoFile]
    /\ StoreFresh
    /\ CmpIdle
    /\ MetaIdle
    /\ rPath \in SeqsUpTo(RelChars, MaxRelLen)
    /\ rOut = <<>>
    /\ rBegin = NotRun
    /\ rGen = NotRun
    /\ ProcIdle

\* let rel = repo.relative_path(&path)
RelRelativePath ==
    /\ rOut = <<>>
    /\ rOut' = <<RelativePath(rPath)>>
    /\ UNCHANGED <<rPath, rBegin, rGen, pathVars, storeVars, cmpVars, metaVars,
                   procVars>>

\* store.begin_tracking(&path)
RelBeginTracking ==
    LET out == BeginTrackingCall(disk, rPath)
    IN  /\ ~Ran(rBegin)
        /\ rBegin' = out.res
        /\ disk' = out.st
        /\ UNCHANGED <<rPath, rOut, rGen, work, pathVars, cmpVars, metaVars,
                       procVars>>

\* store.generate_step(&path)
RelGenerateStep ==
    LET out == GenerateStepCall(disk, work, rPath)
    IN  /\ ~Ran(rGen)
        /\ rGen' = out.res
        /\ disk' = out.st
        /\ UNCHANGED <<rPath, rOut, rBegin, work, pathVars, cmpVars, metaVars,
                       procVars>>

NextRel ==
    \/ RelRelativePath
    \/ RelBeginTracking
    \/ RelGenerateStep

SpecRel == InitRel /\ [][NextRel]_vars

\* The path is absolute and the components of the working directory are
\* the first of its components.
InsideWorkDir(p) ==
    /\ ~IsRelative(p)
    /\ IsPrefix(Components(WorkDir).parts, Components(p).parts)

\* The components of a path inside the working directory that follow those
\* of the working directory.
RestOf(p) ==
    SubSeq(Components(p).parts, Len(Components(WorkDir).parts) + 1,
           Len(Components(p).parts))

(***************************************************************************)
(* C22: relative_path(p) is Some of p as it is when p is relative, Some   *)
(* of p without the components of the working directory when p is         *)
(* absolute and inside the working directory (a file, a file of a         *)
(* subdirectory, a subdirectory), and None when p is absolute and outside *)
(* of it; begin_tracking and generate_step fail with PathIsntInRepository *)
(* exactly when relative_path returns None.                               *)
(***************************************************************************)
C22_RelativePath ==
    /\ rOut # <<>> =>
        LET r == rOut[1]
        IN  /\ IsRelative(rPath) => r.some /\ r.val = rPath
            /\ InsideWorkDir(rPath) =>
                   /\ r.some
                   /\ Components(r.val) = [root |-> FALSE, parts |-> RestOf(rPath)]
            /\ (~IsRelative(rPath) /\ ~InsideWorkDir(rPath)) => ~r.some
    /\ Ran(rBegin) =>
        (IsErr(rBegin, "PathIsntInRepository") <=> ~RelativePath(rPath).some)
    /\ Ran(rGen) =>
        (IsErr(rGen, "PathIsntInRepository") <=> ~RelativePath(rPath).some)

\* relative_path of a file of a subdirectory, and the store took the path.
C22_Witness ==
    /\ rPath = <<"/", "w", "/", "a", "/", "w">>
    /\ rOut = <<Some(<<"a", "/", "w">>)>>
    /\ rBegin.ok
    /\ IsErr(rGen, "FailedToReadFile")

(***************************************************************************)
(* C23: the blob write of generate_step is a no-op when a blob with that  *)
(* hash exists: in every reachable state, also one where write has        *)
(* overridden the bytes of the blob, a generate_step that succeeds on     *)
(* content whose hash names a stored blob leaves the bytes of that blob   *)
(* as they were and only appends to the metadata.                         *)
(***************************************************************************)
C23_BlobWriteNoOp ==
    \A path \in PathInputs :
        LET out == GenerateStepCall(disk, work, path)
        IN  (out.res.ok /\ HashToString(out.res.val) \in DOMAIN disk.objects) =>
                /\ out.st.objects = disk.objects
                /\ out.st.objectsDirExists = disk.objectsDirExists

(***************************************************************************)
(* C24: no blob is stored under the all-zero hash: in every state          *)
(* reachable by begin_tracking, generate_step, mark_file_removed, read     *)
(* and write (also a write addressed at a step whose entry is the removal  *)
(* mark) the objects directory has no file named by the all-zero hash,     *)
(* and the read of a step whose entry is the removal mark fails with       *)
(* FailedToReadObject.                                                     *)
(***************************************************************************)
\* The step of the RepoPath resolves to the removal mark.
IsSentinelStep(st, rp) ==
    /\ GetMetadata(st, rp.relative_path).ok
    /\ StepsGet(GetMetadata(st, rp.relative_path).val.steps, rp.step)
           = Some(ZeroHash)

C24_NoZeroBlob ==
    /\ HashToString(ZeroHash) \notin DOMAIN disk.objects
    /\ \A rp \in RepoPaths :
           IsSentinelStep(disk, rp) => IsErr(Read(disk, rp), "FailedToReadObject")

(***************************************************************************)
(* SpecTwo: two processes call the store on one repository.  An append to  *)
(* a history is three steps of a process, get_metadata, push and           *)
(* write_metadata, and the store takes no lock: the steps of the two       *)
(* processes interleave.                                                   *)
(***************************************************************************)
MaxCalls == 2

InitTwo ==
    /\ PathIdle
    /\ work \in [WorkFiles -> {1, NoFile}]
    /\ StoreFresh
    /\ CmpIdle
    /\ MetaIdle
    /\ RelIdle
    /\ ProcIdle

\* store.begin_tracking(&path), by either process
TwoBeginTracking(w, path) ==
    /\ wPc[w] = "idle"
    /\ disk' = BeginTrackingCall(disk, path).st
    /\ UNCHANGED <<work, pathVars, cmpVars, metaVars, relVars, procVars>>

\* generate_step up to its call of add_step_to_metadata: the file is
\* hashed and copied to the objects directory.
TwoGenerateStep(w, path) ==
    LET rel == RelativePath(path)
        file == OpenFile(work, rel.val)
        hash == HashFile(rel.val, file.val)
    IN  /\ wPc[w] = "idle"
        /\ wCalls[1] + wCalls[2] < MaxCalls
        /\ wCalls' = [wCalls EXCEPT ![w] = @ + 1]
        /\ IF ~rel.some \/ ~file.ok
           THEN UNCHANGED <<disk, wPc, wLoc>>
           ELSE /\ disk' = CopyToObjects(disk, hash, file.val)
                /\ wLoc' = [wLoc EXCEPT ![w] =
                               [path |-> rel.val, step |-> hash,
                                meta |-> [steps |-> <<>>]]]
                /\ wPc' = [wPc EXCEPT ![w] = "get"]
        /\ UNCHANGED <<work, wOk, pathVars, cmpVars, metaVars, relVars>>

\* mark_file_removed is called: the step to push is the removal mark.
TwoMarkFileRemoved(w, path) ==
    /\ wPc[w] = "idle"
    /\ wCalls[1] + wCalls[2] < MaxCalls
    /\ wCalls' = [wCalls EXCEPT ![w] = @ + 1]
    /\ wLoc' = [wLoc EXCEPT ![w] =
                   [path |-> path, step |-> ZeroHash, meta |-> [steps |-> <<>>]]]
    /\ wPc' = [wPc EXCEPT ![w] = "get"]
    /\ UNCHANGED <<work, disk, wOk, pathVars, cmpVars, metaVars, relVars>>

\* let mut meta = self.get_metadata(path)?; meta.steps.push(step);
TwoGetMetadata(w) ==
    LET meta == GetMetadata(disk, wLoc[w].path)
    IN  /\ wPc[w] = "get"
        /\ IF ~meta.ok
           THEN /\ wPc' = [wPc EXCEPT ![w] = "idle"]
                /\ wLoc' = [wLoc EXCEPT ![w] = NoLocals]
           ELSE /\ wPc' = [wPc EXCEPT ![w] = "put"]
                /\ wLoc' = [wLoc EXCEPT ![w].meta = PushStep(meta.val, wLoc[w].step)]
        /\ UNCHANGED <<work, disk, wOk, wCalls, pathVars, cmpVars, metaVars,
                       relVars>>

\* self.write_metadata(path, meta)?; Ok(..)
TwoWriteMetadata(w) ==
    /\ wPc[w] = "put"
    /\ disk' = StoreWriteMetadata(disk, wLoc[w].path, wLoc[w].meta).st
    /\ wOk' = [wOk EXCEPT ![wLoc[w].path] = @ + 1]
    /\ wPc' = [wPc EXCEPT ![w] = "idle"]
    /\ wLoc' = [wLoc EXCEPT ![w] = NoLocals]
    /\ UNCHANGED <<work, wCalls, pathVars, cmpVars, metaVars, relVars>>

NextTwo ==
    \/ \E w \in Writers, path \in WorkFiles : TwoBeginTracking(w, path)
    \/ \E w \in Writers, path \in WorkFiles : TwoGenerateStep(w, path)
    \/ \E w \in Writers, path \in WorkFiles : TwoMarkFileRemoved(w, path)
    \/ \E w \in Writers : TwoGetMetadata(w)
    \/ \E w \in Writers : TwoWriteMetadata(w)

SpecTwo == InitTwo /\ [][NextTwo]_vars

\* The length of the history recorded for a file, 0 without a record.
HistoryLen(st, f) == IF HasRecord(st, f) THEN Len(Steps(st, f)) ELSE 0

\* Only one process has called an append.
SingleWriter == \E w \in Writers : \A v \in Writers \ {w} : wCalls[v] = 0

(***************************************************************************)
(* C25: the append of generate_step and mark_file_removed reads the whole  *)
(* record, pushes and rewrites the whole record with no lock.  With one    *)
(* writer every append that returns Ok grows the history by exactly one;   *)
(* with two writers a history never has more entries than appends that     *)
(* returned Ok, and the state of C25_LostStep is reachable, where both     *)
(* appends returned Ok and the history has grown by one entry only.        *)
(***************************************************************************)
C25_SingleWriterGrows ==
    /\ \A f \in WorkFiles : HistoryLen(disk, f) <= wOk[f]
    /\ SingleWriter => \A f \in WorkFiles : HistoryLen(disk, f) = wOk[f]

\* Each process appended once to the same file, both appends returned Ok,
\* and the history has one entry.
C25_LostStep ==
    \E f \in WorkFiles :
        /\ wCalls = [w \in Writers |-> 1]
        /\ \A w \in Writers : wPc[w] = "idle"
        /\ wOk[f] = 2
        /\ HistoryLen(disk, f) = 1

(***************************************************************************)
(* C26: compare_states makes no read and no hash of state_old on a path    *)
(* that state_new does not list: what it returns is the same whatever      *)
(* state_old reads on such a path, a failure as well, and a deleted file   *)
(* gives its path alone.                                                   *)
(***************************************************************************)
\* The two results of compare_states are the same.
SameDiff(r1, r2) == r1.ok = r2.ok /\ r1.val = r2.val

\* state_old with its reads on the paths that state_new does not list
\* taken from rd.
WithDeletedReads(rd) ==
    [cOld EXCEPT !.reads =
        [p \in OldPaths |-> IF p \in NewPaths THEN cOld.reads[p] ELSE rd[p]]]

C26_DeletedNotRead ==
    (Ran(cDiff) /\ cOld.files.ok /\ cNew.files.ok) =>
        /\ \A rd \in [OldPaths \ NewPaths -> CmpContent \cup {ReadFails}] :
               SameDiff(cDiff, CompareStates(WithDeletedReads(rd), cNew))
        /\ cDiff.ok => (OldPaths \ NewPaths) \subseteq Range(cDiff.val.deleted_files)

\* Reached: a Diff that reports a deleted file which state_old cannot read.
C26_Witness ==
    /\ Ran(cDiff) /\ cDiff.ok
    /\ \E p \in Range(cDiff.val.deleted_files) : cOld.reads[p] = ReadFails

(***************************************************************************)
(* C27: write(repo_path, content) on a path that has a record.             *)
(***************************************************************************)
\* The (file, step) pairs of st whose entry is the ObjectPath obj.
StepsNaming(st, obj) ==
    {rq \in RepoPaths :
        /\ HasRecord(st, rq.relative_path)
        /\ StepsGet(Steps(st, rq.relative_path), rq.step) = Some(obj)}

\* st2 holds the records and the tracking directory as the store holds
\* them.
SameMetadata(st2) ==
    /\ st2.pathsDirExists = disk.pathsDirExists
    /\ st2.metaFiles = disk.metaFiles

\* C27 as claimed: with a step in range, write changes no record, and read
\* then returns content for repo_path and for every (file, step) whose
\* entry is the same ObjectPath; with a step out of range it fails with
\* PathDoesntExist and changes nothing.
C27_WriteReplaces ==
    \A rp \in RepoPaths, c \in Content :
        HasRecord(disk, rp.relative_path) =>
            LET out == WriteCall(disk, rp, c)
                steps == Steps(disk, rp.relative_path)
            IN  IF rp.step < Len(steps)
                THEN /\ SameMetadata(out.st)
                     /\ \A rq \in StepsNaming(disk, steps[rp.step + 1]) :
                            IsOk(Read(out.st, rq), c)
                ELSE IsPathDoesntExist(out.res, rp) /\ out.st = disk

\* C27 amended: with a step in range, write changes no record; when the
\* objects directory exists it returns Ok, replaces (or creates) the blob
\* the entry names and no other, and read then returns content for
\* repo_path and for every (file, step) whose entry is the same ObjectPath;
\* when the objects directory does not exist it fails with
\* FailedToWriteToObject and changes nothing.  With a step out of range it
\* fails with PathDoesntExist and changes nothing.
C27_WriteInRange ==
    \A rp \in RepoPaths, c \in Content :
        HasRecord(disk, rp.relative_path) =>
            LET out == WriteCall(disk, rp, c)
                steps == Steps(disk, rp.relative_path)
            IN  IF rp.step < Len(steps)
                THEN /\ SameMetadata(out.st)
                     /\ IF disk.objectsDirExists
                        THEN /\ out.res.ok
                             /\ out.st.objects =
                                    PutFile(disk.objects,
                                            HashToString(steps[rp.step + 1]), c)
                             /\ \A rq \in StepsNaming(disk, steps[rp.step + 1]) :
                                    IsOk(Read(out.st, rq), c)
                        ELSE /\ IsErr(out.res, "FailedToWriteToObject")
                             /\ out.st = disk
                ELSE IsPathDoesntExist(out.res, rp) /\ out.st = disk

\* Reached: two files whose step 0 is the same ObjectPath, after a write
\* to one of them: both read the content written, which is not the content
\* the blob is named after.
C27_Witness ==
    \E f \in WorkFiles, g \in WorkFiles, c \in Content :
        /\ f # g
        /\ HasRecord(disk, f) /\ HasRecord(disk, g)
        /\ Steps(disk, f) = Steps(disk, g)
        /\ Len(Steps(disk, f)) = 1
        /\ Steps(disk, f)[1] # Blake3(c)
        /\ IsOk(Read(disk, RepoPathNew(RepoBranch, 0, f).val), c)
        /\ IsOk(Read(disk, RepoPathNew(RepoBranch, 0, g).val), c)

(***************************************************************************)
(* changes.rs, RepoStateFromWorking: the state of the working directory.   *)
(* The working directory of the model holds files and no subdirectory, so  *)
(* iter_dir does not recurse.                                              *)
(***************************************************************************)
\* PathBuf::join: an absolute path replaces the base.
JoinPath(base, path) ==
    IF ~IsRelative(path) THEN path
    ELSE IF base = <<>> \/ base[Len(base)] = "/" THEN base \o path
    ELSE base \o <<"/">> \o path

\* RepoStateFromWorking::files: file.path() of every entry of
\* work_dir.read_dir() that is a file, which is work_dir joined with the
\* name of the entry.
WorkingFiles(wd) ==
    LET names == SetToSeq({f \in DOMAIN wd : wd[f] # NoFile})
    IN  Ok([i \in 1..Len(names) |-> JoinPath(WorkDir, names[i])])

\* RepoStateFromWorking::read: std::fs::read(work_dir.join(path))
WorkingRead(wd, path) ==
    LET rel == StripPrefix(JoinPath(WorkDir, path), WorkDir)
    IN  IF rel.some /\ rel.val \in DOMAIN wd /\ wd[rel.val] # NoFile
        THEN Ok(wd[rel.val])
        ELSE Err(<<"io", path>>)

\* RepoStateFromWorking as compare_states takes a state: what files()
\* returns and what read returns for each path listed.
WorkingState(wd) ==
    LET files == WorkingFiles(wd)
    IN  [files |-> files,
         reads |-> [p \in Range(files.val) |->
                       IF WorkingRead(wd, p).ok THEN WorkingRead(wd, p).val
                       ELSE ReadFails]]

\* RepoStateFromStore, from_latest having succeeded with state, as
\* compare_states takes a state.
StoreState(st, state) ==
    LET files == StateFiles(state)
    IN  [files |-> Ok(files),
         reads |-> [p \in Range(files) |->
                       IF StateRead(st, state, p).ok
                       THEN StateRead(st, state, p).val
                       ELSE ReadFails]]

\* The file is tracked and the working directory holds what its last step
\* recorded.
Unchanged(st, wd, f) ==
    /\ HasRecord(st, f)
    /\ Steps(st, f) # <<>>
    /\ wd[f] # NoFile
    /\ Steps(st, f)[Len(Steps(st, f))] = Blake3(wd[f])

\* The path names the file f of the working directory.
NamesFile(p, f) == RelativePath(p).some /\ PathEq(RelativePath(p).val, f)

(***************************************************************************)
(* C28: RepoStateFromWorking::files() returns every regular file of the    *)
(* working directory as a path relative to the root of the working         *)
(* directory, the form RepoStateFromStore::files() uses, so that           *)
(* compare_states(store-latest, working) reports a tracked file whose      *)
(* working content is that of its latest step neither as new nor as        *)
(* deleted.                                                                *)
(***************************************************************************)
C28_WorkingPathsRelative ==
    LET files == WorkingFiles(work).val
    IN  /\ \A i \in 1..Len(files) : IsRelative(files[i])
        /\ \A f \in WorkFiles :
               work[f] # NoFile <=> \E i \in 1..Len(files) : NamesFile(files[i], f)
        /\ FromLatest(disk).ok =>
               LET d == CompareStates(StoreState(disk, FromLatest(disk).val),
                                      WorkingState(work))
               IN  d.ok =>
                     \A f \in WorkFiles :
                         Unchanged(disk, work, f) =>
                             \A p \in PathsOf(d.val.new_files)
                                        \cup Range(d.val.deleted_files) :
                                 ~NamesFile(p, f)

(***************************************************************************)
(* C29: referential integrity.  With a single writer calling               *)
(* begin_tracking, generate_step and mark_file_removed in any order on     *)
(* any files, failing calls included, every entry of every record that is  *)
(* not the removal mark names a blob of the objects directory:             *)
(* generate_step copies the blob before it rewrites the record.            *)
(***************************************************************************)
\* The objects directory of st holds the blob the entry names.
BlobExists(st, obj) ==
    st.objectsDirExists /\ HashToString(obj) \in DOMAIN st.objects

C29_ReferentialIntegrity ==
    \A name \in DOMAIN disk.metaFiles :
        \A i \in 1..Len(ParseSteps(disk.metaFiles[name])) :
            LET obj == ParseSteps(disk.metaFiles[name])[i]
            IN  obj # ZeroHash => BlobExists(disk, obj)

\* Reached: a history with a step that names a blob, followed by the
\* removal mark.
C29_Witness ==
    \E f \in WorkFiles :
        /\ HasRecord(disk, f)
        /\ Len(Steps(disk, f)) = 2
        /\ Steps(disk, f)[1] # ZeroHash
        /\ BlobExists(disk, Steps(disk, f)[1])
        /\ Steps(disk, f)[2] = ZeroHash

(***************************************************************************)
(* SpecNoWrite: the store as in Spec, without the calls of write.          *)
(***************************************************************************)
NextNoWrite ==
    \/ \E path \in PathInputs : BeginTracking(path)
    \/ \E path \in PathInputs : GenerateStep(path)
    \/ \E path \in PathInputs : MarkFileRemoved(path)
    \/ \E f \in WorkFiles, c \in Content \cup {NoFile} : EditFile(f, c)

SpecNoWrite == Init /\ [][NextNoWrite]_vars

\* Every blob of st holds the content its name is the hash of.
BlobsIntact(st) ==
    \A name \in DOMAIN st.objects :
        name = HashToString(Blake3(st.objects[name]))

(***************************************************************************)
(* C30: blob integrity.  In every state reached by begin_tracking,         *)
(* generate_step and mark_file_removed alone, every blob holds content     *)
(* that hashes to its name, and the read of a step that is not the         *)
(* removal mark returns bytes whose hash is the ObjectPath of the step;    *)
(* none of the three calls breaks this.  A write can: C30_Witness is a     *)
(* state where some write leaves a blob that does not hash to its name.    *)
(***************************************************************************)
C30_BlobIntegrity ==
    /\ BlobsIntact(disk)
    /\ \A rp \in RepoPaths :
           (HasRecord(disk, rp.relative_path)
              /\ rp.step < Len(Steps(disk, rp.relative_path))
              /\ Steps(disk, rp.relative_path)[rp.step + 1] # ZeroHash) =>
               /\ Read(disk, rp).ok
               /\ Blake3(Read(disk, rp).val)
                      = Steps(disk, rp.relative_path)[rp.step + 1]
    /\ \A path \in PathInputs :
           /\ BlobsIntact(BeginTrackingCall(disk, path).st)
           /\ BlobsIntact(GenerateStepCall(disk, work, path).st)
           /\ BlobsIntact(MarkFileRemovedCall(disk, path).st)

\* Reached: a store with a step that reads back, where a write to that
\* step returns Ok and leaves a blob whose content does not hash to its
\* name.
C30_Witness ==
    \E rp \in WriteInputs, c \in Content :
        /\ Read(disk, rp).ok
        /\ WriteCall(disk, rp, c).res.ok
        /\ ~BlobsIntact(WriteCall(disk, rp, c).st)

(***************************************************************************)
(* C31: read and write do not look at the branch of the RepoPath.  For     *)
(* two RepoPaths that differ in their branch only, read returns the same   *)
(* bytes or fails with the same error, and write returns the same kind of  *)
(* result and leaves the same store: both resolve the record under the     *)
(* branch of the repository.  (PathDoesntExist carries the RepoPath that   *)
(* was given; the results are compared by variant.)                        *)
(***************************************************************************)
\* Two results agree: the same success, or errors of the same variant.
SameOutcome(r1, r2) ==
    /\ r1.ok = r2.ok
    /\ r1.ok => r1.val = r2.val
    /\ ~r1.ok => r1.val[1] = r2.val[1]

\* The RepoPath with the other branch of the model in place of its own.
OnOtherBranch(rp) ==
    [rp EXCEPT !.branch = IF rp.branch = RepoBranch THEN OtherBranch
                          ELSE RepoBranch]

C31_BranchIgnored ==
    \A rp \in WriteInputs :
        LET rq == OnOtherBranch(rp)
        IN  /\ rq \in RepoPaths
            /\ SameOutcome(Read(disk, rp), Read(disk, rq))
            /\ \A c \in Content :
                   /\ SameOutcome(WriteCall(disk, rp, c).res,
                                  WriteCall(disk, rq, c).res)
                   /\ WriteCall(disk, rp, c).st = WriteCall(disk, rq, c).st

\* Reached: a step recorded under the branch of the repository that a
\* RepoPath of another branch reads and can write.
C31_Witness ==
    \E f \in WorkFiles, c \in Content :
        /\ IsOk(Read(disk, RepoPathNew(RepoBranch, 0, f).val), c)
        /\ IsOk(Read(disk, RepoPathNew(OtherBranch, 0, f).val), c)
        /\ WriteCall(disk, RepoPathNew(OtherBranch, 0, f).val, c).res.ok

(***************************************************************************)
(* C32: every call that takes a path of the working directory addresses    *)
(* the same record for the same file.  For a file that is tracked,         *)
(* get_metadata and mark_file_removed given its absolute path inside the   *)
(* working directory work on the record begin_tracking made for it, the    *)
(* one is_tracked and generate_step resolve: they return what they return  *)
(* for the relative path, and mark_file_removed leaves the same store.     *)
(***************************************************************************)
C32_SameRecord ==
    \A path \in PathInputs :
        (~IsRelative(path) /\ IsTracked(disk, path)
           /\ RelativePath(path).val \in WorkFiles) =>
            LET rel == RelativePath(path).val
            IN  /\ GetMetadata(disk, path).ok
                /\ GetMetadata(disk, path).val = GetMetadata(disk, rel).val
                /\ MarkFileRemovedCall(disk, path).res.ok
                /\ MarkFileRemovedCall(disk, path).st
                       = MarkFileRemovedCall(disk, rel).st

=============================================================================
